---- MODULE Spec2Model ----
(***************************************************************************)
(* Boxed: sandbox lifecycle (container driver + HTTP handlers), the exec   *)
(* coordinator's read loop and the Docker stream demultiplexer.            *)
(*                                                                         *)
(* The specifications share the variables:                                 *)
(*   Spec / LiveSpec  the server: POST /sandbox and DELETE /sandbox/{id},  *)
(*                    the TTL goroutines, the engine                       *)
(*   DriverSpec       a caller of the Driver interface: Create, Start,     *)
(*                    Stop, Info, the file operations, Connect             *)
(*   ExecSpec         one exec call reading the Agent's event stream       *)
(*   DemuxSpec        one DockerStream demultiplexing a framed byte stream *)
(*   CfgSpec          one Create call from Validate to ContainerCreate     *)
(*   SweepSpec        a new driver's startup sweep of labelled containers  *)
(*   AuthSpec         one /v1 request through the API-key middleware       *)
(*   BridgeSpec       one interactive session: WebSocket <-> Agent stream  *)
(*   StreamSpec       one exec call or one interactive session             *)
(*   FsSpec           one sandbox's files: injection, Put, Get, List       *)
(*   ReaderSpec       one bufio.Scanner reading one line of the Agent      *)
(*   ExitSpec         one exec call whose Agent sends one exit notification *)
(*   ExecLiveSpec, DemuxLiveSpec, BridgeLiveSpec                           *)
(*                    the same with the goroutines' steps scheduled fairly *)
(***************************************************************************)
EXTENDS Integers, Sequences, FiniteSets, TLC

(***************************************************************************)
(* Bounds of the model.                                                    *)
(***************************************************************************)
MaxSandboxes == 1   \* containers the engine creates in one behaviour
MaxFiles == 1       \* context files of one create request
MaxOrphans == 2     \* containers the engine holds when a driver is constructed
MaxMessages == 2    \* WebSocket messages the client sends in one interactive session
MaxFileOps == 3     \* file operations made on one sandbox

(***************************************************************************)
(* Program constants.                                                      *)
(***************************************************************************)
DefaultMemoryMB == 512
DefaultCPUMilli == 1000        \* 1.0 core, in thousandths
DefaultTimeoutSec == 300       \* 5 * time.Minute
MaxMemoryMB == 8192
MaxCPUMilli == 4000            \* 4.0 cores, in thousandths
MaxTimeoutSec == 1800          \* 30 * time.Minute

VARIABLES
    \* ---- lifecycle
    cstate,         \* engine: container id -> "none" | "created" | "running" | "oomkilled" | "removed"
    nextId,         \* engine: the next container id it assigns
    ttl,            \* container id -> "off" | "armed" | "elapsed" | "fired": the TTL goroutine of Create
    ttlRes,         \* container id -> result of the TTL goroutine's Stop ("none" before it ran)
    post,           \* the POST /sandbox request in flight (createSandbox)
    conn,           \* the driver Connect call in flight
    last,           \* the last completed single-call operation and what it returned (history)
    observedReady,  \* container id -> a client has been told the sandbox is ready (history)
    \* ---- one exec call (execSandbox)
    build,          \* the platform the server was built for: "amd64" | "arm64"
    stream,         \* the lines the Agent sends on the connection, in order
    streamEnd,      \* what follows the last line: "eof" | "err" (read error) | "open" (silence)
    pos,            \* lines the scanner has handed to the read loop
    stdout,         \* strings.Builder stdout, a sequence of characters
    stderr,         \* strings.Builder stderr
    artifacts,      \* []proto.ArtifactEvent
    exitCode,       \* *int: <<>> for nil, or <<code>>
    gpc,            \* the reading goroutine: "idle" | "scan" | "sendNil" | "sendErr" | "sendEOF" | "returned"
    hpc,            \* the handler: "idle" | "select" | "returned"
    ctxDone,        \* the request's context is cancelled
    connClosed,     \* conn.Close() has run (the handler's defer)
    resp,           \* the HTTP response: status and body
    calls,          \* what the exec call has asked of the driver and the session, in order
    \* ---- one DockerStream (demux)
    frames,         \* the frames the engine sends (the input, kept for the claims)
    wire,           \* bytes of ds.resp.Reader not read yet
    wireOpen,       \* the engine keeps the connection open after the last byte
    dpc,            \* the demux goroutine: "idle" | "header" | "stdout" | "stderr" | "discard" | "returned"
    remaining,      \* payload bytes io.CopyN has still to copy
    pending,        \* bytes of a pipe Write that the consumer has not read yet
    out,            \* bytes the consumer has read from the DockerStream
    sink,           \* bytes written to os.Stderr
    closed,         \* DockerStream.Close() has been called
    sawEOF,         \* a consumer Read has returned io.EOF
    \* ---- one DockerDriver.Create, from Validate to ContainerCreate
    cfgIn,          \* the SandboxConfig the caller passes
    made,           \* <<>> before the call, then <<what Create did and returned>>
    again,           \* <<>>, then <<Validate applied once and twice to cfgIn>>
    \* ---- startup sweep
    engine,         \* container id -> [label, st, by]: the engine's containers at and after New
    sweep,          \* the cleanupOrphans goroutine: [pc, todo, expired]
    listed,         \* <<>> or <<the ids the last GET /sandbox returned>>
    \* ---- API key
    apiKey,         \* Handler.apiKey, "" when none is configured
    areq,           \* one /v1 request: what it carries, where it is, what it caused
    \* ---- interactive bridge
    peers,          \* what the client and the Agent will send, and how their sides end
    bridge,         \* interactSandbox and its two goroutines: positions, closes, return
    errChan,        \* the buffered channel the goroutines report on
    toAgent,        \* the conn.Write calls made, in order: [line, ok]
    toWs,           \* the messages written to the WebSocket, in order
    \* ---- files of one sandbox
    box,            \* the container: [st, workDir], st "none" | "created" | "running" | "removed"
    tree,           \* the container's filesystem: a set of [path, dir, data]
    fop,            \* the last file operation: what was asked and what came back
    written,        \* history: the bytes last put at each absolute path
    fcount,         \* file operations made so far
    \* ---- one bufio.Scanner on the Agent stream
    rd              \* the scanner's buffer, what it has read of one line, and the outcome

lifeVars == <<cstate, nextId, ttl, ttlRes, post, conn, last, observedReady>>

execVars == <<build, stream, streamEnd, pos, stdout, stderr, artifacts, exitCode, gpc, hpc,
              ctxDone, connClosed, resp, calls>>

dmxVars == <<frames, wire, wireOpen, dpc, remaining, pending, out, sink, closed, sawEOF>>

cfgVars == <<cfgIn, made, again>>

\* The variables besides the lifecycle's, the exec call's and the demultiplexer's.
swpVars == <<engine, sweep, listed>>

authVars == <<apiKey, areq>>

brVars == <<peers, bridge, errChan, toAgent, toWs>>

\* The variables of the specifications added after the API key's.
fsVars == <<box, tree, fop, written, fcount>>

rdVars == <<rd>>

extVars == <<brVars, fsVars, rdVars>>

auxVars == <<cfgVars, swpVars, authVars, extVars>>

vars == <<lifeVars, execVars, dmxVars, auxVars>>

(***************************************************************************)
(* Identifiers.  The engine assigns container ids 1, 2, ...; id 0 stands   *)
(* for an id the engine never assigns (a caller's bogus id).               *)
(***************************************************************************)
Ids == 1..MaxSandboxes
AllIds == 0..MaxSandboxes
Known == {i \in AllIds : i < nextId}   \* ids a caller can name: assigned ones, or the bogus one
Created == Known \ {0}                  \* ids the engine has assigned

Exists(st) == st \in {"created", "running", "oomkilled"}

\* What a caller finds: a ready sandbox, one that exists and is not ready, or none.
Found(st) == IF st = "running" THEN "ready" ELSE IF Exists(st) THEN "notReady" ELSE "absent"

(***************************************************************************)
(* SandboxConfig.Validate: fills defaults, then rejects out-of-range       *)
(* values.  CPU cores are held in thousandths.  Returns the error and the  *)
(* config as Validate leaves it.                                           *)
(***************************************************************************)
\* Mutant: the working directory is always set to the default.
ApplyDefaults_workDirAlways(c) ==
    [c EXCEPT !.MemoryMB = IF c.MemoryMB <= 0 THEN DefaultMemoryMB ELSE c.MemoryMB,
              !.CPUMilli = IF c.CPUMilli <= 0 THEN DefaultCPUMilli ELSE c.CPUMilli,
              !.TimeoutSec = IF c.TimeoutSec <= 0 THEN DefaultTimeoutSec ELSE c.TimeoutSec,
              !.WorkDir = "/workspace"]

ApplyDefaults(c) ==
    [c EXCEPT !.MemoryMB = IF c.MemoryMB <= 0 THEN DefaultMemoryMB ELSE c.MemoryMB,
              !.CPUMilli = IF c.CPUMilli <= 0 THEN DefaultCPUMilli ELSE c.CPUMilli,
              !.TimeoutSec = IF c.TimeoutSec <= 0 THEN DefaultTimeoutSec ELSE c.TimeoutSec,
              !.WorkDir = IF c.WorkDir = "" THEN "/workspace" ELSE c.WorkDir]

Validate(c) ==
    IF c.Image = "" THEN [err |-> "ErrInvalidConfig", cfg |-> c]
    ELSE LET d == ApplyDefaults(c) IN
         IF \/ d.MemoryMB > MaxMemoryMB
            \/ d.CPUMilli > MaxCPUMilli
            \/ d.TimeoutSec > MaxTimeoutSec
         THEN [err |-> "ErrInvalidConfig", cfg |-> d]
         ELSE [err |-> "ok", cfg |-> d]

\* createSandbox builds the config from the request: fixed memory and CPU,
\* the request's timeout in seconds, 5 minutes when it is 0.
HandlerConfig(timeoutSec) ==
    [Image |-> "python:3.10-slim", MemoryMB |-> DefaultMemoryMB, CPUMilli |-> DefaultCPUMilli,
     TimeoutSec |-> IF timeoutSec = 0 THEN DefaultTimeoutSec ELSE timeoutSec, WorkDir |-> ""]

(***************************************************************************)
(* The container engine, as the driver's calls see it.  A call made with a *)
(* cancelled context fails without effect.                                 *)
(***************************************************************************)
ContainerRemove(st, ctxDead) ==
    IF ctxDead THEN "error" ELSE IF Exists(st) THEN "ok" ELSE "notFound"

ContainerStart(st, ctxDead) ==
    IF ctxDead THEN "error" ELSE IF Exists(st) THEN "ok" ELSE "notFound"

ContainerInspect(st, ctxDead) ==
    IF ctxDead THEN "error" ELSE IF Exists(st) THEN "ok" ELSE "notFound"

ContainerExecCreate(st, ctxDead) ==
    IF ctxDead THEN "error" ELSE IF st = "running" THEN "ok"
    ELSE IF Exists(st) THEN "conflict" ELSE "notFound"

ContainerExecAttach(st, ctxDead) ==
    IF ctxDead THEN "error" ELSE IF st = "running" THEN "ok"
    ELSE IF Exists(st) THEN "conflict" ELSE "notFound"

CopyToContainer(st, ctxDead, dirExists) ==
    IF ctxDead THEN "error" ELSE IF ~Exists(st) THEN "notFound"
    ELSE IF dirExists THEN "ok" ELSE "error"

CopyFromContainer(st, ctxDead, pathExists) ==
    IF ctxDead THEN "error" ELSE IF ~Exists(st) THEN "notFound"
    ELSE IF pathExists THEN "ok" ELSE "error"

(***************************************************************************)
(* DockerDriver: the error each operation returns ("ok" is nil).           *)
(***************************************************************************)
\* Mutant: a missing container counts as stopped.
DriverStop_notFoundIsNil(st, ctxDead) ==
    IF ContainerRemove(st, ctxDead) \in {"ok", "notFound"} THEN "ok"
    ELSE "err:failed to stop/remove container"

DriverStop(st, ctxDead) ==
    LET e == ContainerRemove(st, ctxDead) IN
    IF e = "ok" THEN "ok"
    ELSE IF e = "notFound" THEN "ErrSandboxNotFound"
    ELSE "err:failed to stop/remove container"

DriverStart(st, ctxDead) ==
    IF ContainerStart(st, ctxDead) = "ok" THEN "ok" ELSE "err:failed to start container"

\* Info: the error, or the state it reports.
DriverInfo(st, ctxDead) ==
    LET e == ContainerInspect(st, ctxDead) IN
    IF e = "notFound" THEN "ErrSandboxNotFound"
    ELSE IF e # "ok" THEN "err:inspect"
    ELSE IF st = "running" THEN "StateReady"
    ELSE IF st = "oomkilled" THEN "StateError"
    ELSE "StateStopped"

\* resolvePath: an absolute path needs no backend call; a relative one
\* inspects the container and returns the inspect error unchanged.
ResolvePath(st, ctxDead, isAbs) ==
    IF isAbs THEN "ok"
    ELSE IF ContainerInspect(st, ctxDead) = "ok" THEN "ok" ELSE "err:inspect"

DriverPutFile(st, ctxDead, isAbs, dirExists) ==
    IF ResolvePath(st, ctxDead, isAbs) # "ok" THEN "err:inspect"
    ELSE IF CopyToContainer(st, ctxDead, dirExists) = "ok" THEN "ok"
    ELSE "err:docker copy failed"

DriverGetFile(st, ctxDead, isAbs, pathExists) ==
    IF ResolvePath(st, ctxDead, isAbs) # "ok" THEN "err:inspect"
    ELSE IF CopyFromContainer(st, ctxDead, pathExists) = "ok" THEN "ok"
    ELSE "err:docker copy failed"

DriverListFiles(st, ctxDead, isAbs, pathExists) ==
    IF ResolvePath(st, ctxDead, isAbs) # "ok" THEN "err:inspect"
    ELSE IF CopyFromContainer(st, ctxDead, pathExists) = "ok" THEN "ok"
    ELSE "err:failed to read path"

\* Mutant: Connect without the running check.
ConnectInspect_noRunningCheck(st, ctxDead) ==
    LET e == ContainerInspect(st, ctxDead) IN
    IF e = "notFound" THEN "ErrSandboxNotFound"
    ELSE IF e # "ok" THEN "err:inspect"
    ELSE "go"

\* Connect, first part: inspect and the running check.  "go" means Connect
\* goes on to create the exec.
ConnectInspect(st, ctxDead) ==
    LET e == ContainerInspect(st, ctxDead) IN
    IF e = "notFound" THEN "ErrSandboxNotFound"
    ELSE IF e # "ok" THEN "err:inspect"
    ELSE IF st # "running" THEN "ErrSandboxNotRunning"
    ELSE "go"

ConnectExecCreate(st, ctxDead) ==
    IF ContainerExecCreate(st, ctxDead) = "ok" THEN "go" ELSE "err:failed to create exec"

ConnectExecAttach(st, ctxDead) ==
    IF ContainerExecAttach(st, ctxDead) = "ok" THEN "ok" ELSE "err:failed to attach to exec"

\* Mutant: the cleanup Stop is made with the request's context.
CleanupCtxDead_request(requestCancelled) == requestCancelled

\* The context of the cleanup Stop in createSandbox is context.Background():
\* never cancelled, whatever the request's context is.
CleanupCtxDead(requestCancelled) == FALSE

\* Mutant: the TTL goroutine's Stop is made with the creating request's context.
TTLCtxDead_request(requestCancelled) == requestCancelled

\* The context of the TTL goroutine's Stop is made from context.Background()
\* when the timer fires: not cancelled, whatever became of the creating request.
TTLCtxDead(requestCancelled) == FALSE

\* Mutant: a sandbox that is not found counts as deleted.
StopStatus_notFoundIs204(err) ==
    IF err \in {"ok", "ErrSandboxNotFound"} THEN 204 ELSE 500

\* stopSandbox: the status for the error Stop returned.
StopStatus(err) ==
    IF err = "ok" THEN 204 ELSE IF err = "ErrSandboxNotFound" THEN 404 ELSE 500

(***************************************************************************)
(* Lifecycle: initial state.  No container exists; no request in flight.   *)
(***************************************************************************)
IdlePost ==
    [pc |-> "idle", cancelled |-> FALSE, timeoutSec |-> 0, files |-> <<>>, id |-> 0,
     context |-> <<>>, puts |-> 0, createOk |-> FALSE, startFailed |-> FALSE, cleanupRes |-> "none", status |-> 0]

IdleConn ==
    [pc |-> "idle", cancelled |-> FALSE, id |-> 0, sawReady |-> FALSE,
     res |-> "none", opened |-> FALSE]

NoCall == [op |-> "none", id |-> 0, res |-> "none", status |-> 0]

\* No exec call has arrived.
NoResp == [status |-> 0, body |-> "none"]

ExecStart(s, e) ==
    /\ build = "amd64"
    /\ stream = s /\ streamEnd = e /\ pos = 0
    /\ stdout = <<>> /\ stderr = <<>> /\ artifacts = <<>> /\ exitCode = <<>>
    /\ gpc = "idle" /\ hpc = "idle"
    /\ ctxDone = FALSE /\ connClosed = FALSE
    /\ resp = NoResp
    /\ calls = <<>>

ExecIdle == ExecStart(<<>>, "eof")

\* No DockerStream has been made.
DemuxIdle ==
    /\ frames = <<>> /\ wire = <<>> /\ wireOpen = FALSE
    /\ dpc = "idle" /\ remaining = 0
    /\ pending = <<>> /\ out = <<>> /\ sink = <<>>
    /\ closed = FALSE /\ sawEOF = FALSE

\* No Create call is looked at on its own.
NoConfig ==
    [Image |-> "", MemoryMB |-> 0, CPUMilli |-> 0, TimeoutSec |-> 0, WorkDir |-> "",
     LabelsNil |-> TRUE, Labels |-> {}]

CfgStart(c) == cfgIn = c /\ made = <<>> /\ again = <<>>

CfgIdle == CfgStart(NoConfig)

\* No driver construction is looked at on its own: the engine holds nothing
\* and the sweep has returned.
SweepIdle ==
    /\ engine = [c \in 1..(MaxOrphans + 1) |-> [label |-> "none", st |-> "absent", by |-> "none"]]
    /\ sweep = [pc |-> "done", todo |-> <<>>, expired |-> FALSE]
    /\ listed = <<>>

\* A /v1 request carrying header and query to route, not yet dispatched.
Request(route, header, query) ==
    [route |-> route, header |-> header, query |-> query, pc |-> "arrived",
     handled |-> FALSE, calls |-> <<>>, status |-> 0]

\* No key is configured and no request is looked at on its own.
AuthIdle ==
    /\ apiKey = ""
    /\ areq = [Request("", "", "") EXCEPT !.pc = "idle"]

\* interactSandbox before the upgrade: nothing held, nothing closed.
BridgeStart ==
    [hpc |-> "upgrade", g1 |-> "idle", g2 |-> "idle", wpos |-> 0, apos |-> 0,
     connOpened |-> FALSE, connClosed |-> FALSE, wsOpened |-> FALSE, wsClosed |-> FALSE,
     agentBroken |-> FALSE, ret |-> "none"]

\* No interactive session is looked at on its own.
BridgeIdle ==
    /\ peers = [wsIn |-> <<>>, wsEnd |-> "open", agentOut |-> <<>>, agentEnd |-> "open"]
    /\ bridge = [BridgeStart EXCEPT !.hpc = "idle"]
    /\ errChan = <<>> /\ toAgent = <<>> /\ toWs = <<>>

NoFileOp == [op |-> "none", path |-> <<>>, data |-> <<>>, res |-> "none", out |-> <<>>,
             entries |-> {}, status |-> 0]

\* No sandbox's files are looked at on their own.
FsIdle ==
    /\ box = [st |-> "none", workDir |-> <<>>]
    /\ tree = {}
    /\ fop = NoFileOp
    /\ written = {}
    /\ fcount = 0

\* No scanner is looked at on its own.
ReaderIdle ==
    rd = [who |-> "none", maxTokenSize |-> 0, buf |-> 0, fill |-> 0, line |-> 0, nl |-> FALSE,
          fed |-> 0, eof |-> FALSE, st |-> "idle", out |-> "none"]

ExtIdle == BridgeIdle /\ FsIdle /\ ReaderIdle

AuxIdle == CfgIdle /\ SweepIdle /\ AuthIdle /\ ExtIdle

LifeIdle ==
    /\ cstate = [i \in AllIds |-> "none"]
    /\ nextId = 1
    /\ ttl = [i \in AllIds |-> "off"]
    /\ ttlRes = [i \in AllIds |-> "none"]
    /\ post = IdlePost
    /\ conn = IdleConn
    /\ last = NoCall
    /\ observedReady = [i \in AllIds |-> FALSE]

LifeInit == LifeIdle /\ ExecIdle /\ DemuxIdle /\ AuxIdle

\* The engine's state after a driver Stop on id that returned res.
AfterStop(id, res) == IF res = "ok" THEN [cstate EXCEPT ![id] = "removed"] ELSE cstate

(***************************************************************************)
(* POST /sandbox: createSandbox, and in it DockerDriver.Create and Start.  *)
(***************************************************************************)
\* The request arrives: timeout in seconds and the context files, each
\* "good" (decodable base64) or "bad".
PostArrive(timeoutSec, files) ==
    /\ post.pc \in {"idle", "done"}
    /\ nextId <= MaxSandboxes
    /\ post' = [IdlePost EXCEPT !.pc = "create", !.timeoutSec = timeoutSec, !.files = files,
                              !.context = files]
    /\ UNCHANGED <<cstate, nextId, ttl, ttlRes, conn, last, observedReady>>
    /\ UNCHANGED <<execVars, dmxVars, auxVars>>

\* The client goes away (or the server's deadline passes): the request's
\* context is cancelled.
PostCancel ==
    /\ post.pc \in {"create", "inject", "start", "cleanup"}
    /\ ~post.cancelled
    /\ post' = [post EXCEPT !.cancelled = TRUE]
    /\ UNCHANGED <<cstate, nextId, ttl, ttlRes, conn, last, observedReady>>
    /\ UNCHANGED <<execVars, dmxVars, auxVars>>

\* Create up to ContainerCreate: Validate, image inspect (and pull), create.
\* With no context file, Create arms the TTL goroutine and returns the id.
PostCreate ==
    /\ post.pc = "create"
    /\ IF Validate(HandlerConfig(post.timeoutSec)).err # "ok" \/ post.cancelled
       THEN /\ post' = [post EXCEPT !.pc = "done", !.timeoutSec = 0, !.files = <<>>,
                                     !.status = 500]
            /\ UNCHANGED <<cstate, nextId, ttl>>
       ELSE /\ cstate' = [cstate EXCEPT ![nextId] = "created"]
            /\ nextId' = nextId + 1
            /\ IF post.files = <<>>
               THEN /\ ttl' = [ttl EXCEPT ![nextId] = "armed"]
                    /\ post' = [post EXCEPT !.pc = "start", !.timeoutSec = 0, !.id = nextId,
                                              !.createOk = TRUE]
               ELSE /\ ttl' = ttl
                    /\ post' = [post EXCEPT !.pc = "inject", !.timeoutSec = 0, !.id = nextId]
    /\ UNCHANGED <<ttlRes, conn, last, observedReady>>
    /\ UNCHANGED <<execVars, dmxVars, auxVars>>

\* Mutant: every context file is logged and skipped.
InjectFile_skipAll(f, st, ctxDead) == "skipped"

\* One pass of Create's injection loop: a file whose content does not decode
\* is logged and skipped, any other is put into the container.
InjectFile(f, st, ctxDead) ==
    IF f = "bad" THEN "skipped" ELSE DriverPutFile(st, ctxDead, TRUE, TRUE)

\* Create, one context file: a file that does not decode is logged and
\* skipped; a failed PutFile stops the container with the request's context
\* and fails the Create.  After the last file Create arms the TTL goroutine.
\* post.puts counts the files put into the container.
PostInject ==
    /\ post.pc = "inject"
    /\ LET f == Head(post.files)
           rest == Tail(post.files)
           put == InjectFile(f, cstate[post.id], post.cancelled)
           n == IF put = "ok" THEN post.puts + 1 ELSE post.puts
       IN IF put \in {"ok", "skipped"}
          THEN /\ IF rest = <<>>
                  THEN /\ ttl' = [ttl EXCEPT ![post.id] = "armed"]
                       /\ post' = [post EXCEPT !.pc = "start", !.files = rest, !.puts = n,
                                                !.createOk = TRUE]
                  ELSE /\ ttl' = ttl
                       /\ post' = [post EXCEPT !.files = rest, !.puts = n]
               /\ UNCHANGED cstate
          ELSE /\ cstate' = AfterStop(post.id, DriverStop(cstate[post.id], post.cancelled))
               /\ post' = [post EXCEPT !.pc = "done", !.files = <<>>, !.status = 500]
               /\ ttl' = ttl
    /\ UNCHANGED <<nextId, ttlRes, conn, last, observedReady>>
    /\ UNCHANGED <<execVars, dmxVars, auxVars>>

\* createSandbox calls Start with the request's context.
PostStart ==
    /\ post.pc = "start"
    /\ LET res == DriverStart(cstate[post.id], post.cancelled) IN
       IF res = "ok"
       THEN /\ cstate' = [cstate EXCEPT ![post.id] = "running"]
            /\ post' = [post EXCEPT !.pc = "done", !.status = 201]
            /\ observedReady' = [observedReady EXCEPT ![post.id] = TRUE]
       ELSE /\ post' = [post EXCEPT !.pc = "cleanup", !.startFailed = TRUE]
            /\ UNCHANGED <<cstate, observedReady>>
    /\ UNCHANGED <<nextId, ttl, ttlRes, conn, last>>
    /\ UNCHANGED <<execVars, dmxVars, auxVars>>

\* Start failed: Stop with a context of its own, then the 500 answer.
PostCleanup ==
    /\ post.pc = "cleanup"
    /\ LET res == DriverStop(cstate[post.id], CleanupCtxDead(post.cancelled)) IN
       /\ cstate' = AfterStop(post.id, res)
       /\ post' = [post EXCEPT !.pc = "done", !.cleanupRes = res, !.status = 500]
    /\ UNCHANGED <<nextId, ttl, ttlRes, conn, last, observedReady>>
    /\ UNCHANGED <<execVars, dmxVars, auxVars>>

(***************************************************************************)
(* DockerDriver.Create called directly (the tests do, with no context file *)
(* and a context of their own): validate, create, arm the TTL goroutine.   *)
(***************************************************************************)
Create(cfg, ctxDead) ==
    /\ nextId <= MaxSandboxes
    /\ IF Validate(cfg).err # "ok"
       THEN /\ last' = [op |-> "Create", id |-> 0, res |-> "ErrInvalidConfig", status |-> 0]
            /\ UNCHANGED <<cstate, nextId, ttl>>
       ELSE IF ctxDead
       THEN /\ last' = [op |-> "Create", id |-> 0, res |-> "err:failed to inspect image",
                        status |-> 0]
            /\ UNCHANGED <<cstate, nextId, ttl>>
       ELSE /\ cstate' = [cstate EXCEPT ![nextId] = "created"]
            /\ nextId' = nextId + 1
            /\ ttl' = [ttl EXCEPT ![nextId] = "armed"]
            /\ last' = [op |-> "Create", id |-> nextId, res |-> "ok", status |-> 0]
    /\ UNCHANGED <<ttlRes, post, conn, observedReady>>
    /\ UNCHANGED <<execVars, dmxVars, auxVars>>

(***************************************************************************)
(* The TTL goroutine of Create: sleep, then Stop.                          *)
(***************************************************************************)
TTLElapse(id) ==
    /\ ttl[id] = "armed"
    /\ ttl' = [ttl EXCEPT ![id] = "elapsed"]
    /\ UNCHANGED <<cstate, nextId, ttlRes, post, conn, last, observedReady>>
    /\ UNCHANGED <<execVars, dmxVars, auxVars>>

\* The context of the request that created id: cancelled by the client, or
\* by the server once the handler has returned.
CreatorCtxDead(id) ==
    ~(post.id = id /\ post.pc \in {"inject", "start", "cleanup"} /\ ~post.cancelled)

TTLStop(id) ==
    /\ ttl[id] = "elapsed"
    /\ LET res == DriverStop(cstate[id], TTLCtxDead(CreatorCtxDead(id))) IN
       /\ cstate' = AfterStop(id, res)
       /\ ttlRes' = [ttlRes EXCEPT ![id] = res]
    /\ ttl' = [ttl EXCEPT ![id] = "fired"]
    /\ UNCHANGED <<nextId, post, conn, last, observedReady>>
    /\ UNCHANGED <<execVars, dmxVars, auxVars>>

\* The engine's OOM killer ends the container's primary process.
EngineKill(id) ==
    /\ cstate[id] = "running"
    /\ cstate' = [cstate EXCEPT ![id] = "oomkilled"]
    /\ UNCHANGED <<nextId, ttl, ttlRes, post, conn, last, observedReady>>
    /\ UNCHANGED <<execVars, dmxVars, auxVars>>

(***************************************************************************)
(* Single-call driver operations, made by a caller that holds the driver   *)
(* (the file handlers, the tests) on an id it knows, with a context that   *)
(* is live or already cancelled.                                           *)
(***************************************************************************)
Start(id, ctxDead) ==
    /\ LET res == DriverStart(cstate[id], ctxDead) IN
       /\ cstate' = IF res = "ok" THEN [cstate EXCEPT ![id] = "running"] ELSE cstate
       /\ last' = [op |-> "Start", id |-> id, res |-> res, status |-> 0]
    /\ UNCHANGED <<nextId, ttl, ttlRes, post, conn, observedReady>>
    /\ UNCHANGED <<execVars, dmxVars, auxVars>>

Stop(id, ctxDead) ==
    /\ LET res == DriverStop(cstate[id], ctxDead) IN
       /\ cstate' = AfterStop(id, res)
       /\ last' = [op |-> "Stop", id |-> id, res |-> res, status |-> 0]
    /\ UNCHANGED <<nextId, ttl, ttlRes, post, conn, observedReady>>
    /\ UNCHANGED <<execVars, dmxVars, auxVars>>

Info(id, ctxDead) ==
    /\ LET res == DriverInfo(cstate[id], ctxDead) IN
       /\ last' = [op |-> "Info", id |-> id, res |-> res, status |-> 0]
       /\ observedReady' = IF res = "StateReady"
                           THEN [observedReady EXCEPT ![id] = TRUE] ELSE observedReady
    /\ UNCHANGED <<cstate, nextId, ttl, ttlRes, post, conn>>
    /\ UNCHANGED <<execVars, dmxVars, auxVars>>

ListFiles(id, ctxDead, isAbs, pathExists) ==
    /\ last' = [op |-> "ListFiles", id |-> id, status |-> 0,
                res |-> DriverListFiles(cstate[id], ctxDead, isAbs, pathExists)]
    /\ UNCHANGED <<cstate, nextId, ttl, ttlRes, post, conn, observedReady>>
    /\ UNCHANGED <<execVars, dmxVars, auxVars>>

PutFile(id, ctxDead, isAbs, dirExists) ==
    /\ last' = [op |-> "PutFile", id |-> id, status |-> 0,
                res |-> DriverPutFile(cstate[id], ctxDead, isAbs, dirExists)]
    /\ UNCHANGED <<cstate, nextId, ttl, ttlRes, post, conn, observedReady>>
    /\ UNCHANGED <<execVars, dmxVars, auxVars>>

GetFile(id, ctxDead, isAbs, pathExists) ==
    /\ last' = [op |-> "GetFile", id |-> id, status |-> 0,
                res |-> DriverGetFile(cstate[id], ctxDead, isAbs, pathExists)]
    /\ UNCHANGED <<cstate, nextId, ttl, ttlRes, post, conn, observedReady>>
    /\ UNCHANGED <<execVars, dmxVars, auxVars>>

(***************************************************************************)
(* DELETE /sandbox/{id}: stopSandbox.  An empty id is answered 400 without *)
(* a driver call.                                                          *)
(***************************************************************************)
Delete(id, ctxDead) ==
    /\ LET res == DriverStop(cstate[id], ctxDead) IN
       /\ cstate' = AfterStop(id, res)
       /\ last' = [op |-> "DELETE", id |-> id, res |-> res, status |-> StopStatus(res)]
    /\ UNCHANGED <<nextId, ttl, ttlRes, post, conn, observedReady>>
    /\ UNCHANGED <<execVars, dmxVars, auxVars>>

DeleteEmptyId ==
    /\ last' = [op |-> "DELETE-empty", id |-> 0, res |-> "none", status |-> 400]
    /\ UNCHANGED <<cstate, nextId, ttl, ttlRes, post, conn, observedReady>>
    /\ UNCHANGED <<execVars, dmxVars, auxVars>>

(***************************************************************************)
(* DockerDriver.Connect: inspect, exec create, exec attach: three backend  *)
(* calls, between which other operations run.                              *)
(***************************************************************************)
ConnectBegin(id, ctxDead) ==
    /\ conn.pc \in {"idle", "done"}
    /\ LET res == ConnectInspect(cstate[id], ctxDead)
           c == [IdleConn EXCEPT !.id = id, !.cancelled = ctxDead,
                                 !.sawReady = observedReady[id]]
       IN conn' = IF res = "go" THEN [c EXCEPT !.pc = "execCreate"]
                  ELSE [c EXCEPT !.pc = "done", !.res = res]
    /\ UNCHANGED <<cstate, nextId, ttl, ttlRes, post, last, observedReady>>
    /\ UNCHANGED <<execVars, dmxVars, auxVars>>

ConnectCancel ==
    /\ conn.pc \in {"execCreate", "attach"}
    /\ ~conn.cancelled
    /\ conn' = [conn EXCEPT !.cancelled = TRUE]
    /\ UNCHANGED <<cstate, nextId, ttl, ttlRes, post, last, observedReady>>
    /\ UNCHANGED <<execVars, dmxVars, auxVars>>

ConnectCreateExec ==
    /\ conn.pc = "execCreate"
    /\ LET res == ConnectExecCreate(cstate[conn.id], conn.cancelled) IN
       conn' = IF res = "go" THEN [conn EXCEPT !.pc = "attach"]
               ELSE [conn EXCEPT !.pc = "done", !.res = res]
    /\ UNCHANGED <<cstate, nextId, ttl, ttlRes, post, last, observedReady>>
    /\ UNCHANGED <<execVars, dmxVars, auxVars>>

\* A successful attach starts the Agent in the container: a session is open.
ConnectAttach ==
    /\ conn.pc = "attach"
    /\ LET res == ConnectExecAttach(cstate[conn.id], conn.cancelled) IN
       conn' = [conn EXCEPT !.pc = "done", !.res = res, !.opened = (res = "ok")]
    /\ UNCHANGED <<cstate, nextId, ttl, ttlRes, post, last, observedReady>>
    /\ UNCHANGED <<execVars, dmxVars, auxVars>>

(***************************************************************************)
(* Spec: the server.  POST and DELETE requests, TTL goroutines, the engine.*)
(***************************************************************************)
TimeoutChoices == {0, 60, 1801}
FileChoices == {<<>>} \cup UNION {[1..n -> {"good", "bad"}] : n \in 1..MaxFiles}

Next ==
    \/ \E t \in TimeoutChoices, fs \in FileChoices : PostArrive(t, fs)
    \/ PostCancel
    \/ PostCreate
    \/ PostInject
    \/ PostStart
    \/ PostCleanup
    \/ \E id \in Ids : TTLElapse(id)
    \/ \E id \in Ids : TTLStop(id)
    \/ \E id \in Ids : EngineKill(id)
    \/ \E id \in Known, d \in BOOLEAN : Delete(id, d)
    \/ DeleteEmptyId

Spec == LifeInit /\ [][Next]_vars

\* The Go scheduler runs every goroutine that can run: a TTL goroutine's
\* sleep ends and its Stop is made.
LiveSpec ==
    /\ Spec
    /\ \A id \in Ids : WF_vars(TTLElapse(id)) /\ WF_vars(TTLStop(id))

(***************************************************************************)
(* DriverSpec: callers that hold the driver (as the tests do) and call its *)
(* operations on the sandboxes they created, beside the TTL goroutines.    *)
(***************************************************************************)
CfgChoices ==
    {[Image |-> img, MemoryMB |-> 0, CPUMilli |-> 0, TimeoutSec |-> t, WorkDir |-> ""] :
        img \in {"", "python:3.10-slim"}, t \in {0, 1801}}

DriverNext ==
    \/ \E cfg \in CfgChoices, d \in BOOLEAN : Create(cfg, d)
    \/ \E id \in Ids : TTLElapse(id)
    \/ \E id \in Ids : TTLStop(id)
    \/ \E id \in Ids : EngineKill(id)
    \/ \E id \in Known, d \in BOOLEAN : Start(id, d)
    \/ \E id \in Known, d \in BOOLEAN : Stop(id, d)
    \/ \E id \in Known, d \in BOOLEAN : Info(id, d)
    \/ \E id \in Created, d \in BOOLEAN, a \in BOOLEAN, e \in BOOLEAN : ListFiles(id, d, a, e)
    \/ \E id \in Created, d \in BOOLEAN, a \in BOOLEAN, e \in BOOLEAN : PutFile(id, d, a, e)
    \/ \E id \in Created, d \in BOOLEAN, a \in BOOLEAN, e \in BOOLEAN : GetFile(id, d, a, e)
    \/ \E id \in Known, d \in BOOLEAN : ConnectBegin(id, d)
    \/ ConnectCancel
    \/ ConnectCreateExec
    \/ ConnectAttach

DriverSpec == LifeInit /\ [][DriverNext]_vars

(***************************************************************************)
(* Claims about the lifecycle.                                             *)
(***************************************************************************)
Canonical == {"ErrSandboxNotFound", "ErrSandboxNotRunning"}

C2_DeleteStatus ==
    [][\A id \in Known, d \in BOOLEAN :
        Delete(id, d) =>
            /\ last'.status = IF d THEN 500 ELSE IF Exists(cstate[id]) THEN 204 ELSE 404
            /\ (last'.status = 204 => cstate'[id] = "removed")
            /\ (last.op = "DELETE" /\ last.id = id /\ last.status = 204 /\ ~d
                    => last'.status = 404)]_vars

\* C2 witness: a sandbox that only a DELETE can have removed, and the latest
\* DELETE of it answered 404.
C2_Witness ==
    /\ last.op = "DELETE" /\ last.id \in Ids /\ last.status = 404
    /\ cstate[last.id] = "removed" /\ ttlRes[last.id] # "ok"
    /\ ~(post.id = last.id /\ post.cleanupRes = "ok")

C7_ConnectAfterReady ==
    (conn.pc = "done" /\ conn.sawReady /\ ~conn.cancelled) => conn.res \in Canonical \cup {"ok"}

\* C8: when Start fails after Create, createSandbox never answers 201/ready;
\* it answers 500 after a Stop whose context the request's cancellation does
\* not reach, so that Stop is served and the sandbox no longer exists.
C8_StartFailureCleanup ==
    post.startFailed =>
        /\ post.status \in {0, 500}
        /\ post.pc \in {"cleanup", "done"}
        /\ (post.pc = "done" =>
                /\ post.status = 500
                /\ post.cleanupRes \in {"ok", "ErrSandboxNotFound"}
                /\ ~Exists(cstate[post.id]))

\* C8 witness: the request was cancelled, Start failed, and the cleanup Stop
\* removed the sandbox.
C8_Witness ==
    post.pc = "done" /\ post.startFailed /\ post.cancelled /\ post.cleanupRes = "ok"

\* C9: a successful Create has armed the TTL goroutine; once armed, its Stop
\* is eventually made, and it is served (not refused for a cancelled
\* context), so that the sandbox does not exist afterwards.
C9_TTLStop ==
    /\ [](post.createOk => ttl[post.id] # "off")
    /\ [](\A id \in Ids : ttl[id] = "fired" =>
            ttlRes[id] \in {"ok", "ErrSandboxNotFound"} /\ ~Exists(cstate[id]))
    /\ \A id \in Ids : (ttl[id] = "armed") ~> (ttl[id] = "fired")

\* C9 witness: the TTL Stop removed a sandbox whose creating request is
\* cancelled and has not called Start yet.
C9_Witness ==
    \E id \in Ids :
        /\ ttl[id] = "fired" /\ ttlRes[id] = "ok"
        /\ post.id = id /\ post.cancelled /\ post.pc = "start"

\* C10, as stated: once the TTL Stop of a sandbox has run, every driver
\* operation on its id (made with a live context) fails with ErrSandboxNotFound.
C10_ExpiredIsNotFound ==
    [][\A id \in Ids :
        ttl[id] = "fired" =>
            /\ (\/ Start(id, FALSE) \/ Stop(id, FALSE) \/ Info(id, FALSE)
                \/ \E a \in BOOLEAN, e \in BOOLEAN :
                      \/ ListFiles(id, FALSE, a, e)
                      \/ PutFile(id, FALSE, a, e)
                      \/ GetFile(id, FALSE, a, e))
                  => last'.res = "ErrSandboxNotFound"
            /\ (ConnectBegin(id, FALSE) => conn'.res = "ErrSandboxNotFound")]_vars

(***************************************************************************)
(* POST /sandbox/{id}/exec: execSandbox.  Strings are sequences of         *)
(* characters.  A line of the Agent is held as json.Unmarshal sees it:     *)
(*   kind    "empty" | "badJSON" | "response" (non-null id) | "notification" *)
(*   method  the notification's method                                     *)
(*   ok      response: error is not nil; notification: the parameter the   *)
(*           loop reads (chunk, code, message) has the type it asserts     *)
(*   text    the chunk, the message or the artifact's path                 *)
(*   code    the exit code, a JSON number held in tenths                   *)
(*   mime, data_base64, url   the other parameters of an artifact          *)
(***************************************************************************)
MaxLines == 3       \* lines the Agent sends in one exec call

Line(kind, method, ok, text, code) ==
    [kind |-> kind, method |-> method, ok |-> ok, text |-> text, code |-> code,
     mime |-> "", data_base64 |-> "", url |-> ""]

\* An artifact notification with its four parameters.
ArtifactLine(path, mime, data, url) ==
    [kind |-> "notification", method |-> "artifact", ok |-> TRUE, text |-> path, code |-> 0,
     mime |-> mime, data_base64 |-> data, url |-> url]

Lines ==
    {Line("empty", "", FALSE, <<>>, 0), Line("badJSON", "", FALSE, <<>>, 0),
     Line("response", "", FALSE, <<>>, 0), Line("response", "", TRUE, <<"x">>, 0),
     Line("notification", "stdout", TRUE, <<"a">>, 0),
     Line("notification", "stdout", TRUE, <<"b", "c">>, 0),
     Line("notification", "stdout", FALSE, <<>>, 0),
     Line("notification", "stderr", TRUE, <<"e">>, 0),
     ArtifactLine(<<"p">>, "m", "d", "u"),
     Line("notification", "exit", TRUE, <<>>, 0),
     Line("notification", "exit", FALSE, <<>>, 0),
     Line("notification", "error", TRUE, <<"m">>, 0)}

SeqsUpTo(S, n) == UNION {[1..k -> S] : k \in 0..n}

\* Mutant: the language switch defaults to python.
LanguageCmd_defaultPython(language) ==
    CASE language = "python" -> "python3"
      [] language \in {"javascript", "node"} -> "node"
      [] language \in {"bash", "sh"} -> "bash"
      [] OTHER -> "python3"

\* The language switch of execSandbox: the command, or "" for a language it
\* does not support.
LanguageCmd(language) ==
    CASE language = "python" -> "python3"
      [] language \in {"javascript", "node"} -> "node"
      [] language \in {"bash", "sh"} -> "bash"
      [] OTHER -> ""

\* Mutant: WriteString puts the chunk in front.
WriteString_prepend(b, s) == s \o b

\* strings.Builder.WriteString
WriteString(b, s) == b \o s

\* Mutant: the error of a response is written without its prefix.
RPCErrorText_noPrefix(msg) == <<"\n">> \o msg \o <<"\n">>

RPCErrorText(msg) == <<"\nRPC Error: ">> \o msg \o <<"\n">>
RuntimeErrorText(msg) == <<"\nRuntime Error: ">> \o msg \o <<"\n">>

\* int(c) of a float64 held in tenths: truncation toward zero.
IntOf(c) == IF c >= 0 THEN c \div 10 ELSE -((-c) \div 10)

\* math.MaxInt and math.MinInt of the build, scaled to the model's integers
\* (2^63 - 1 on both builds): only the side of the bounds a code lies on matters.
MaxInt == 1000000

MinInt == -MaxInt - 1

InIntRange(n) == MinInt <= n /\ n <= MaxInt

\* int(c) as the build computes it (c a float64 held in tenths): the value
\* truncated toward zero when an int holds it; otherwise what the
\* processor's conversion gives, the smallest int on amd64 and the nearest
\* bound on arm64.
FloatToInt(c) ==
    IF InIntRange(IntOf(c)) THEN IntOf(c)
    ELSE IF build = "amd64" THEN MinInt
    ELSE IF c > 0 THEN MaxInt ELSE MinInt

\* Mutant: the exit case records the code and goes on reading.
OnExit_keepReading(line, acc) ==
    IF line.ok THEN [acc EXCEPT !.exitCode = <<IntOf(line.code)>>, !.ctl = "continue"]
    ELSE [acc EXCEPT !.ctl = "continue"]

\* Mutant: an exit notification ends the loop whether or not it has a code.
OnExit_endsUncoded(line, acc) ==
    IF line.ok THEN [acc EXCEPT !.exitCode = <<FloatToInt(line.code)>>, !.ctl = "exit"]
    ELSE [acc EXCEPT !.ctl = "exit"]

\* case "exit": a numeric code is recorded and ends the goroutine after its
\* send of nil; anything else leaves the switch.
OnExit(line, acc) ==
    IF line.ok THEN [acc EXCEPT !.exitCode = <<FloatToInt(line.code)>>, !.ctl = "exit"]
    ELSE [acc EXCEPT !.ctl = "continue"]

\* Mutant: a line the loop has no use for ends the loop.
Skip_break(acc) == [acc EXCEPT !.ctl = "break"]

\* continue: the iteration ends with the accumulators as they were.
Skip(acc) == [acc EXCEPT !.ctl = "continue"]

\* case "artifact": the entry appended to artifacts is built from the
\* parameters path, mime and data_base64; its URL is left at the zero value.
ArtifactOf(line) ==
    [path |-> line.text, mime |-> line.mime, data_base64 |-> line.data_base64, url |-> ""]

\* One iteration of the read loop.  acc holds the accumulators; ctl is how
\* the iteration leaves: "continue", "break" or "exit" (send nil and return).
LoopBody(line, acc) ==
    CASE line.kind \in {"empty", "badJSON"} -> Skip(acc)
      [] line.kind = "response" ->
            IF line.ok
            THEN [acc EXCEPT !.stderr = WriteString(@, RPCErrorText(line.text)), !.ctl = "break"]
            ELSE Skip(acc)
      [] line.kind = "notification" /\ line.method = "stdout" ->
            IF line.ok THEN [acc EXCEPT !.stdout = WriteString(@, line.text), !.ctl = "continue"]
            ELSE [acc EXCEPT !.ctl = "continue"]
      [] line.kind = "notification" /\ line.method = "stderr" ->
            IF line.ok THEN [acc EXCEPT !.stderr = WriteString(@, line.text), !.ctl = "continue"]
            ELSE [acc EXCEPT !.ctl = "continue"]
      [] line.kind = "notification" /\ line.method = "artifact" ->
            [acc EXCEPT !.artifacts = Append(@, ArtifactOf(line)), !.ctl = "continue"]
      [] line.kind = "notification" /\ line.method = "exit" -> OnExit(line, acc)
      [] line.kind = "notification" /\ line.method = "error" ->
            IF line.ok
            THEN [acc EXCEPT !.stderr = WriteString(@, RuntimeErrorText(line.text)), !.ctl = "continue"]
            ELSE [acc EXCEPT !.ctl = "continue"]
      [] OTHER -> [acc EXCEPT !.ctl = "continue"]

Accumulators ==
    [stdout |-> stdout, stderr |-> stderr, artifacts |-> artifacts, exitCode |-> exitCode,
     ctl |-> "continue"]

\* Mutant: ExitCode is an int, zero when no exit was recorded.
ExecResponse_zeroExit ==
    [stdout |-> stdout, stderr |-> stderr, artifacts |-> artifacts,
     exit_code |-> IF exitCode = <<>> THEN <<0>> ELSE exitCode]

\* The result execSandbox answers with: ExitCode is a *int, nil unless set.
ExecResponse ==
    [stdout |-> stdout, stderr |-> stderr, artifacts |-> artifacts, exit_code |-> exitCode]

\* Mutant: the deferred Close is never run.
ClosedOnReturn_never(opened) == FALSE

\* defer conn.Close(), registered once Connect has succeeded: the stream is
\* closed when the handler returns.
ClosedOnReturn(opened) == opened

\* The handler up to the start of the reading goroutine: the language
\* switch, Connect (its result connRes is the lifecycle's business), the
\* write of the request.
ExecBegin(language, connRes, writeOk) ==
    /\ hpc = "idle"
    /\ IF LanguageCmd(language) = ""
       THEN /\ resp' = [status |-> 400, body |-> <<>>]
            /\ hpc' = "returned"
            /\ UNCHANGED <<gpc, connClosed, calls>>
       ELSE IF connRes # "ok"
       THEN /\ resp' = [status |-> IF connRes = "ErrSandboxNotFound" THEN 404 ELSE 500, body |-> <<>>]
            /\ hpc' = "returned"
            /\ calls' = <<"Connect">>
            /\ UNCHANGED <<gpc, connClosed>>
       ELSE IF ~writeOk
       THEN /\ resp' = [status |-> 500, body |-> <<>>]
            /\ hpc' = "returned"
            /\ connClosed' = ClosedOnReturn(TRUE)
            /\ calls' = <<"Connect", "Write", "Close">>
            /\ UNCHANGED gpc
       ELSE /\ gpc' = "scan"
            /\ hpc' = "select"
            /\ calls' = <<"Connect", "Write">>
            /\ UNCHANGED <<resp, connClosed>>
    /\ UNCHANGED <<build, stream, streamEnd, pos, stdout, stderr, artifacts, exitCode, ctxDone>>
    /\ UNCHANGED <<lifeVars, dmxVars, auxVars>>

\* The client goes away or the server's deadline passes.
ExecCancel ==
    /\ hpc = "select"
    /\ ~ctxDone
    /\ ctxDone' = TRUE
    /\ UNCHANGED <<build, stream, streamEnd, pos, stdout, stderr, artifacts, exitCode, gpc, hpc,
                   connClosed, resp, calls>>
    /\ UNCHANGED <<lifeVars, dmxVars, auxVars>>

\* The goroutine: scanner.Scan() and the loop body on its line, or the end
\* of the loop and the choice of what to send on done.  A line longer than
\* the scanner's buffer ends the scan with an error (streamEnd = "err");
\* once the connection is closed the pipe reads end-of-file.
Scan ==
    /\ gpc = "scan"
    /\ \/ /\ pos < Len(stream)
          /\ LET r == LoopBody(stream[pos + 1], Accumulators) IN
                /\ pos' = pos + 1
                /\ stdout' = r.stdout
                /\ stderr' = r.stderr
                /\ artifacts' = r.artifacts
                /\ exitCode' = r.exitCode
                /\ gpc' = CASE r.ctl = "exit" -> "sendNil"
                            [] r.ctl = "break" -> "sendEOF"
                            [] OTHER -> "scan"
       \/ /\ pos = Len(stream)
          /\ streamEnd \in {"eof", "err"}
          /\ gpc' = IF streamEnd = "err" THEN "sendErr" ELSE "sendEOF"
          /\ UNCHANGED <<pos, stdout, stderr, artifacts, exitCode>>
       \/ /\ connClosed
          /\ gpc' = "sendEOF"
          /\ UNCHANGED <<pos, stdout, stderr, artifacts, exitCode>>
    /\ UNCHANGED <<build, stream, streamEnd, hpc, ctxDone, connClosed, resp, calls>>
    /\ UNCHANGED <<lifeVars, dmxVars, auxVars>>

\* Mutant: done has room for a value, and one is there at any time.
DoneReady_anyTime(g) == TRUE

\* done is unbuffered: a value can be received exactly when the goroutine
\* stands at one of its sends.
DoneReady(g) == g \in {"sendNil", "sendErr", "sendEOF"}

\* select, case err := <-done: the unbuffered send and the receive happen
\* together; the goroutine returns, the handler answers and its deferred
\* conn.Close() runs.
HandlerRecv ==
    /\ hpc = "select"
    /\ DoneReady(gpc)
    /\ gpc' = "returned"
    /\ hpc' = "returned"
    /\ resp' = IF gpc = "sendErr" THEN [status |-> 500, body |-> <<>>]
               ELSE [status |-> 200, body |-> <<ExecResponse>>]
    /\ connClosed' = ClosedOnReturn(TRUE)
    /\ calls' = Append(calls, "Close")
    /\ UNCHANGED <<build, stream, streamEnd, pos, stdout, stderr, artifacts, exitCode, ctxDone>>
    /\ UNCHANGED <<lifeVars, dmxVars, auxVars>>

\* Mutant: the timeout answer carries what was accumulated.
TimeoutResponse_partial == [status |-> 408, body |-> <<ExecResponse>>]

\* echo.NewHTTPError(http.StatusRequestTimeout, "timed out"): no result.
TimeoutResponse == [status |-> 408, body |-> <<>>]

\* select, case <-c.Request().Context().Done(): 408, and conn.Close().
HandlerCtxDone ==
    /\ hpc = "select"
    /\ ctxDone
    /\ hpc' = "returned"
    /\ resp' = TimeoutResponse
    /\ connClosed' = ClosedOnReturn(TRUE)
    /\ calls' = Append(calls, "Close")
    /\ UNCHANGED <<build, stream, streamEnd, pos, stdout, stderr, artifacts, exitCode, gpc, ctxDone>>
    /\ UNCHANGED <<lifeVars, dmxVars, auxVars>>

\* The languages a request may name: the five of the switch, one it does not
\* know, and none.
LanguageChoices == {"python", "javascript", "node", "bash", "sh", "ruby", ""}

\* What Connect returns: the session, or that the id is unknown or the
\* sandbox not running.
ConnectResults == {"ok", "ErrSandboxNotFound", "ErrSandboxNotRunning"}

ExecNext ==
    \/ \E language \in LanguageChoices,
          connRes \in ConnectResults,
          writeOk \in BOOLEAN :
            ExecBegin(language, connRes, writeOk)
    \/ ExecCancel
    \/ Scan
    \/ HandlerRecv
    \/ HandlerCtxDone

\* What the Agent will send is fixed from the start.
ExecInit ==
    /\ LifeIdle /\ DemuxIdle /\ AuxIdle
    /\ \E s \in SeqsUpTo(Lines, MaxLines), e \in {"eof", "err", "open"} : ExecStart(s, e)

ExecSpec == ExecInit /\ [][ExecNext]_vars

(***************************************************************************)
(* Claims about the exec read loop.                                        *)
(***************************************************************************)
LinesRead == SubSeq(stream, 1, pos)

IsNotification(l, m) == l.kind = "notification" /\ l.method = m

\* The chunks of the notifications of method m in lines, concatenated in order.
RECURSIVE ChunksOf(_, _)
ChunksOf(lines, m) ==
    IF lines = <<>> THEN <<>>
    ELSE (IF IsNotification(Head(lines), m) /\ Head(lines).ok THEN Head(lines).text ELSE <<>>)
            \o ChunksOf(Tail(lines), m)

\* a is b with some elements left out.
RECURSIVE IsSubseq(_, _)
IsSubseq(a, b) ==
    IF a = <<>> THEN TRUE
    ELSE IF b = <<>> THEN FALSE
    ELSE IF Head(a) = Head(b) THEN IsSubseq(Tail(a), Tail(b))
    ELSE IsSubseq(a, Tail(b))

\* C3, as stated: an exit notification the loop has read is the last line it
\* reads (so it reads at most one).
C3_ExitIsLast ==
    \A i \in 1..pos : IsNotification(stream[i], "exit") => i = pos

\* C3, amended: an exit notification with a numeric code that the loop has
\* read is the last line it reads: its code is recorded, the goroutine only
\* sends nil and returns, and from then on no line of the stream changes
\* stdout, stderr, artifacts or the exit code, which the 200 result carries.
C3_ExitWithCodeIsLast ==
    /\ [](\A i \in 1..pos :
            (IsNotification(stream[i], "exit") /\ stream[i].ok) =>
                /\ i = pos
                /\ exitCode = <<IntOf(stream[i].code)>>
                /\ gpc \in {"sendNil", "returned"})
    /\ [](exitCode # <<>> => pos > 0 /\ IsNotification(stream[pos], "exit") /\ stream[pos].ok)
    /\ [][exitCode # <<>> => UNCHANGED <<pos, stdout, stderr, artifacts, exitCode>>]_vars
    /\ [](resp.status = 200 => resp.body = <<ExecResponse>>)

\* C3 witness: a 200 result with an exit code, while the Agent had sent a
\* stdout chunk after the exit notification.
C3_Witness ==
    /\ resp.status = 200 /\ exitCode # <<>>
    /\ pos < Len(stream)
    /\ IsNotification(stream[pos + 1], "stdout") /\ stream[pos + 1].ok

\* C4: the stdout of a 200 result is the concatenation, in arrival order, of
\* the chunks of the stdout notifications the loop read, and the chunks of
\* the stderr notifications it read are in the result's stderr in arrival order.
C4_ChunksInOrder ==
    resp.status = 200 =>
        /\ resp.body[1].stdout = ChunksOf(LinesRead, "stdout")
        /\ IsSubseq(ChunksOf(LinesRead, "stderr"), resp.body[1].stderr)

\* C4 witness: two stdout chunks around a stderr chunk, and the result has them.
C4_Witness ==
    /\ resp.status = 200
    /\ resp.body[1].stdout = <<"b", "c", "a">>
    /\ resp.body[1].stderr = <<"e">>

\* The languages the claim names.
SupportedLanguages == {"python", "javascript", "node", "bash", "sh"}

\* C17: an exec request naming a language outside python, javascript, node,
\* bash, sh is answered 400 with no driver call made, no session opened and
\* nothing written, whatever Connect would have returned for the id; and
\* nothing happens after the 400.
C17_UnsupportedLanguage ==
    /\ [][(hpc = "idle" /\ hpc' # "idle") =>
            \A l \in LanguageChoices \ SupportedLanguages, cr \in ConnectResults, w \in BOOLEAN :
                ExecBegin(l, cr, w) =>
                    /\ resp'.status = 400 /\ calls' = <<>>
                    /\ gpc' = "idle" /\ ~connClosed' /\ pos' = 0]_vars
    /\ [](resp.status = 400 => calls = <<>> /\ gpc = "idle" /\ ~connClosed /\ pos = 0)
    /\ [][resp.status = 400 => UNCHANGED execVars]_vars

\* C17 witness: the 400 answer, with lines the Agent would have sent unread.
C17_Witness ==
    resp.status = 400 /\ calls = <<>> /\ Len(stream) = MaxLines /\ hpc = "returned"

IsErrorResponse(l) == l.kind = "response" /\ l.ok

IsErrorNotification(l) == IsNotification(l, "error") /\ l.ok

\* What the lines put into stderr, in order: stderr chunks, the messages of
\* error notifications and of error responses with their prefixes.
RECURSIVE StderrOf(_)
StderrOf(lines) ==
    IF lines = <<>> THEN <<>>
    ELSE LET l == Head(lines) IN
         (CASE IsNotification(l, "stderr") /\ l.ok -> l.text
            [] IsErrorNotification(l) -> <<"\nRuntime Error: ">> \o l.text \o <<"\n">>
            [] IsErrorResponse(l) -> <<"\nRPC Error: ">> \o l.text \o <<"\n">>
            [] OTHER -> <<>>)
         \o StderrOf(Tail(lines))

\* C19: the message of an error notification and of a response with an error
\* is appended to stderr with its prefix, and the 200 result carries it; an
\* error response is the last line read and is never answered with 500; an
\* error notification leaves the loop reading and the answer unsent; once
\* the loop runs, 500 is answered only when the scan itself ended in an error.
C19_ErrorsFolded ==
    /\ [](stderr = StderrOf(LinesRead))
    /\ [](resp.status = 200 => resp.body[1].stderr = StderrOf(LinesRead))
    /\ [](\A i \in 1..pos : IsErrorResponse(stream[i]) =>
            /\ i = pos
            /\ gpc \in {"sendEOF", "returned"}
            /\ resp.status \in {0, 200, 408}
            /\ (gpc = "returned" => resp.status = 200))
    /\ [][(gpc = "scan" /\ pos < Len(stream) /\ pos' = pos + 1
             /\ IsErrorNotification(stream[pos + 1]))
            => (gpc' = "scan" /\ resp' = resp /\ resp.status \in {0, 408})]_vars
    /\ []((resp.status = 500 /\ pos > 0) =>
            /\ streamEnd = "err" /\ pos = Len(stream)
            /\ ~IsErrorResponse(stream[pos]))

\* C19 witness: a 200 result whose stderr holds the message of an error
\* notification and then that of an error response, a line being left unread.
C19_Witness ==
    /\ resp.status = 200 /\ pos = 2 /\ Len(stream) = 3
    /\ IsErrorNotification(stream[1]) /\ IsErrorResponse(stream[2])
    /\ resp.body[1].stderr = <<"\nRuntime Error: ", "m", "\n", "\nRPC Error: ", "x", "\n">>

RECURSIVE ArtifactsOf(_)
ArtifactsOf(lines) ==
    IF lines = <<>> THEN <<>>
    ELSE (IF IsNotification(Head(lines), "artifact")
          THEN <<[path |-> Head(lines).text, mime |-> Head(lines).mime,
                  data_base64 |-> Head(lines).data_base64, url |-> ""]>>
          ELSE <<>>)
         \o ArtifactsOf(Tail(lines))

HasExit(lines) == \E i \in 1..Len(lines) : IsNotification(lines[i], "exit")

HasCodedExit(lines) == \E i \in 1..Len(lines) : IsNotification(lines[i], "exit") /\ lines[i].ok

\* The stream ended with no exit notification read, and the goroutine's send
\* was received.
EndedWithoutExit ==
    gpc = "returned" /\ streamEnd = "eof" /\ pos = Len(stream) /\ ~HasExit(LinesRead)

\* C20, as stated: end-of-file before any exit notification gives the 200
\* result with what was accumulated and no exit code, and a 200 result has
\* an exit code exactly when an exit notification was read.
C20_ExitCodeIffExit ==
    /\ EndedWithoutExit =>
          (resp.status = 200 /\ resp.body[1].exit_code = <<>>)
    /\ resp.status = 200 => (resp.body[1].exit_code # <<>> <=> HasExit(LinesRead))

\* C20, amended: end-of-file before any exit notification gives the 200
\* result with the stdout, stderr and artifacts accumulated from the lines
\* read and no exit code; a 200 result has an exit code exactly when an exit
\* notification carrying a numeric code was read, and it is that code.
C20_ExitCodeIffCodedExit ==
    /\ EndedWithoutExit =>
          (resp.status = 200 /\ resp.body[1].exit_code = <<>>)
    /\ resp.status = 200 =>
          /\ resp.body[1].stdout = ChunksOf(LinesRead, "stdout")
          /\ resp.body[1].stderr = StderrOf(LinesRead)
          /\ resp.body[1].artifacts = ArtifactsOf(LinesRead)
          /\ (resp.body[1].exit_code # <<>> <=> HasCodedExit(LinesRead))
          /\ (HasCodedExit(LinesRead) => resp.body[1].exit_code = <<IntOf(stream[pos].code)>>)

\* C20 witness: the stream ended after a stdout chunk, an artifact and a
\* stderr chunk with no exit notification; the 200 result has them and no
\* exit code.
C20_Witness ==
    /\ EndedWithoutExit /\ resp.status = 200 /\ pos = 3
    /\ resp.body[1].stdout = <<"a">> /\ resp.body[1].stderr = <<"e">>
    /\ Len(resp.body[1].artifacts) = 1
    /\ resp.body[1].exit_code = <<>>

\* A line the read loop passes over: empty, not JSON, or a response (non-null
\* id) without an error.
PassedOver(l) == l.kind \in {"empty", "badJSON"} \/ (l.kind = "response" /\ ~l.ok)

\* The accumulators and the way the loop leaves after reading lines from the
\* start, by the loop body.
RECURSIVE LoopOver(_, _)
LoopOver(lines, acc) ==
    IF lines = <<>> \/ acc.ctl # "continue" THEN acc
    ELSE LoopOver(Tail(lines), LoopBody(Head(lines), acc))

NothingRead ==
    [stdout |-> <<>>, stderr |-> <<>>, artifacts |-> <<>>, exitCode |-> <<>>, ctl |-> "continue"]

\* C29: the step of the read loop on an empty line, a line that is not JSON
\* or a response without an error changes none of stdout, stderr, artifacts
\* and exit code, leaves the loop reading and sends no answer; and at every
\* moment what was accumulated, and whether the loop still reads, is what
\* the lines read give with those lines left out.
C29_PassedOverLinesChangeNothing ==
    /\ [][(gpc = "scan" /\ pos < Len(stream) /\ pos' = pos + 1 /\ PassedOver(stream[pos + 1]))
            => /\ UNCHANGED <<stdout, stderr, artifacts, exitCode, resp>>
               /\ gpc' = "scan"]_vars
    /\ [](LET r == LoopOver(SelectSeq(LinesRead, LAMBDA l : ~PassedOver(l)), NothingRead) IN
             /\ <<stdout, stderr, artifacts, exitCode>>
                   = <<r.stdout, r.stderr, r.artifacts, r.exitCode>>
             /\ (r.ctl = "continue" /\ pos < Len(stream) /\ gpc # "idle" /\ ~connClosed)
                   => gpc = "scan"
             /\ r.ctl # "continue" => gpc # "scan")

\* C29 witness: an empty line, a line that is not JSON and a response without
\* an error were read around a stdout chunk, and the 200 result is the chunk.
C29_Witness ==
    /\ pos = 3 /\ resp.status = 200
    /\ \E i \in 1..3 : IsNotification(stream[i], "stdout") /\ stream[i].ok
    /\ \E i \in 1..3 : stream[i].kind = "badJSON"
    /\ \E i \in 1..3 : stream[i].kind = "response" /\ ~stream[i].ok
    /\ resp.body[1].stdout = <<"a">> /\ resp.body[1].stderr = <<>>

\* The artifact notifications of lines in order, one entry each, with the
\* four parameters of the notification.
RECURSIVE NotifiedArtifacts(_)
NotifiedArtifacts(lines) ==
    IF lines = <<>> THEN <<>>
    ELSE (IF IsNotification(Head(lines), "artifact")
          THEN <<[path |-> Head(lines).text, mime |-> Head(lines).mime,
                  data_base64 |-> Head(lines).data_base64, url |-> Head(lines).url]>>
          ELSE <<>>)
         \o NotifiedArtifacts(Tail(lines))

\* C30: the artifacts of an exec result are the artifact notifications read,
\* in arrival order, one entry per notification, each with the
\* notification's path, mime, data_base64 and url.
C30_ArtifactsAsNotified ==
    /\ artifacts = NotifiedArtifacts(LinesRead)
    /\ resp.status = 200 => resp.body[1].artifacts = NotifiedArtifacts(LinesRead)

\* An exec call whose Agent sends one exit notification, on either build.
CodeChoices ==
    {0, 15, -15, 19, -19, 70, 10 * MaxInt, 10 * MaxInt + 9, 10 * MaxInt + 10, 10 * MinInt,
     10 * MinInt - 9, 10 * MinInt - 10}

ExitInit ==
    /\ LifeIdle /\ DemuxIdle /\ AuxIdle
    /\ \E c \in CodeChoices, e \in {"eof", "open"}, b \in {"amd64", "arm64"} :
          /\ build = b
          /\ stream = <<Line("notification", "exit", TRUE, <<>>, c)>> /\ streamEnd = e /\ pos = 0
          /\ stdout = <<>> /\ stderr = <<>> /\ artifacts = <<>> /\ exitCode = <<>>
          /\ gpc = "idle" /\ hpc = "idle"
          /\ ctxDone = FALSE /\ connClosed = FALSE
          /\ resp = NoResp
          /\ calls = <<>>

ExitSpec == ExitInit /\ [][ExecNext]_vars

\* C32: the code of an exit notification read is recorded truncated toward
\* zero when an int holds it, and is not recorded when it lies outside the
\* int range.
C32_ExitCodeNarrowed ==
    \A i \in 1..pos :
        (IsNotification(stream[i], "exit") /\ stream[i].ok) =>
            IF InIntRange(IntOf(stream[i].code))
            THEN exitCode = <<IntOf(stream[i].code)>>
            ELSE exitCode = <<>>

\* The Go runtime runs a goroutine that can take a step: the reading
\* goroutine scans on, and the handler's select takes a case that is ready.
ExecLiveSpec ==
    /\ ExecSpec
    /\ WF_vars(Scan) /\ WF_vars(HandlerRecv) /\ WF_vars(HandlerCtxDone)

\* C35: once the handler has returned, the reading goroutine it started
\* eventually terminates.
C35_ReaderGoroutineEnds == (hpc = "returned") ~> (gpc \in {"idle", "returned"})

\* C39: the 200 result is built in a step in which the goroutine stood at
\* its send on done and after which it has returned; from its send on the
\* goroutine writes no accumulator; so a 200 result is what the accumulators
\* hold for good.
C39_ResultReadAfterSend ==
    /\ [][(resp'.status = 200 /\ resp.status # 200)
            => (gpc \in {"sendNil", "sendEOF"} /\ gpc' = "returned")]_vars
    /\ [][(gpc \in {"sendNil", "sendErr", "sendEOF", "returned"})
            => (UNCHANGED <<stdout, stderr, artifacts, exitCode>>)]_vars
    /\ [](resp.status = 200 => (gpc = "returned" /\ resp.body[1] = ExecResponse))

\* C39 witness: a 200 result built from three lines, with a line of each
\* accumulator, after the goroutine returned.
C39_Witness ==
    /\ resp.status = 200 /\ gpc = "returned" /\ pos = 3
    /\ resp.body[1].stdout # <<>> /\ resp.body[1].artifacts # <<>>
    /\ resp.body[1].exit_code # <<>>

IsUncodedExit(l) == IsNotification(l, "exit") /\ ~l.ok

\* C40: the step of the read loop on an exit notification without a numeric
\* code leaves the loop reading, records no exit code and changes no other
\* accumulator; and the loop has only ended after an exit with a code or a
\* response with an error was read, or at the end of the stream (by
\* end-of-file, by a read error, or because the connection was closed).
C40_UncodedExitReadsOn ==
    /\ [][(gpc = "scan" /\ pos < Len(stream) /\ pos' = pos + 1 /\ IsUncodedExit(stream[pos + 1]))
            => /\ gpc' = "scan"
               /\ (UNCHANGED <<stdout, stderr, artifacts, exitCode, resp>>)]_vars
    /\ [](gpc \in {"sendNil", "sendErr", "sendEOF", "returned"} =>
            \/ pos > 0 /\ IsNotification(stream[pos], "exit") /\ stream[pos].ok
            \/ pos > 0 /\ IsErrorResponse(stream[pos])
            \/ pos = Len(stream) /\ streamEnd \in {"eof", "err"}
            \/ connClosed)

\* C40 witness: an exit without a code, then a stdout chunk, then an exit
\* with a code were read: the result has the chunk and the later code.
C40_Witness ==
    /\ pos = 3 /\ IsUncodedExit(stream[1]) /\ IsNotification(stream[2], "stdout")
    /\ IsNotification(stream[3], "exit") /\ stream[3].ok
    /\ resp.status = 200 /\ resp.body[1].stdout = <<"a">> /\ resp.body[1].exit_code = <<0>>

\* C21, as stated: once the request was cancelled during the streaming (the
\* reader's report not yet received), the handler answers 408 with no
\* result and the stream is closed when it returns.
C21_CancelledIs408 ==
    (ctxDone /\ hpc = "returned") =>
        (resp.status = 408 /\ resp.body = <<>> /\ connClosed)

\* C21, amended: after a cancellation during the streaming the handler
\* returns with the stream closed; it answers 408 with no result unless its
\* select received the reader's report, which it may when the report is
\* ready at the select too; a 408 is only ever answered to a cancelled
\* request, with no result and the stream closed.
C21_CancelSeenIs408 ==
    /\ (ctxDone /\ hpc = "returned") =>
          /\ connClosed
          /\ (gpc # "returned" => (resp.status = 408 /\ resp.body = <<>>))
          /\ (gpc = "returned" => resp.status \in {200, 500})
    /\ resp.status = 408 => (ctxDone /\ resp.body = <<>> /\ connClosed /\ gpc # "returned")

\* C21 witness: the 408 answer after stdout and stderr had been accumulated,
\* lines of the stream being left, and the stream closed.
C21_Witness ==
    /\ resp.status = 408 /\ ctxDone /\ connClosed
    /\ stdout # <<>> /\ stderr # <<>> /\ pos < Len(stream)

(***************************************************************************)
(* DockerStream: the demux goroutine, Read and Close.  The engine sends    *)
(* frames of an 8-byte header and a payload; a frame is held as its stream *)
(* type, the payload size its header declares and the payload bytes that   *)
(* arrive (fewer than declared when the connection ends inside the frame). *)
(***************************************************************************)
MaxFrames == 2      \* frames the engine sends on one connection

\* Payload bytes that also read as stream types or header bytes.
Payloads == {<<>>, <<1>>, <<2, 0>>}

Frames ==
    {[type |-> t, size |-> Len(p) + d, payload |-> p] : t \in {0, 1, 2}, p \in Payloads, d \in {0, 1}}

Header(type, size) ==
    <<type, 0, 0, 0,
      (size \div 16777216) % 256, (size \div 65536) % 256, (size \div 256) % 256, size % 256>>

RECURSIVE Encode(_)
Encode(fs) ==
    IF fs = <<>> THEN <<>>
    ELSE Header(Head(fs).type, Head(fs).size) \o Head(fs).payload \o Encode(Tail(fs))

\* int(header[4])<<24 | int(header[5])<<16 | int(header[6])<<8 | int(header[7])
PayloadSize(header) ==
    header[5] * 16777216 + header[6] * 65536 + header[7] * 256 + header[8]

\* Mutant: stderr frames go to the pipe as well.
CopyTarget_stderrToPipe(streamType) ==
    IF streamType \in {1, 2} THEN "stdout" ELSE "discard"

\* switch header[0]: where the payload is copied.
CopyTarget(streamType) ==
    CASE streamType = 1 -> "stdout"
      [] streamType = 2 -> "stderr"
      [] OTHER -> "discard"

Min(a, b) == IF a < b THEN a ELSE b
Drop(q, k) == SubSeq(q, k + 1, Len(q))

\* Mutant: Close closes the connection and leaves the pipe's writer alone.
WriterClosed_byDemuxOnly == dpc = "returned"

\* The pipe's writer is closed: by demux's defer or by Close.
WriterClosed == dpc = "returned" \/ closed

\* io.ReadFull(ds.resp.Reader, header) and the parse of the header.  With
\* fewer than 8 bytes the read fails once the connection has ended or has
\* been closed, and blocks otherwise.
ReadHeader ==
    /\ dpc = "header"
    /\ \/ /\ Len(wire) >= 8
          /\ ~closed
          /\ wire' = Drop(wire, 8)
          /\ remaining' = PayloadSize(SubSeq(wire, 1, 8))
          /\ dpc' = CopyTarget(wire[1])
       \/ /\ (Len(wire) < 8 /\ ~wireOpen) \/ closed
          /\ wire' = <<>>
          /\ dpc' = "returned"
          /\ UNCHANGED remaining
    /\ UNCHANGED <<frames, wireOpen, pending, out, sink, closed, sawEOF>>
    /\ UNCHANGED <<lifeVars, execVars, auxVars>>

\* io.CopyN(ds.writer, ds.resp.Reader, payloadSize): a chunk read from the
\* connection is written to the pipe, and the Write returns when the
\* consumer has read all of it; an error of either side ends demux.
CopyStdout ==
    /\ dpc = "stdout"
    /\ \/ /\ ~closed /\ pending = <<>> /\ remaining = 0
          /\ dpc' = "header"
          /\ UNCHANGED <<wire, remaining, pending>>
       \/ /\ ~closed /\ pending = <<>> /\ remaining > 0 /\ wire # <<>>
          /\ \E k \in 1..Min(remaining, Len(wire)) :
                /\ pending' = SubSeq(wire, 1, k)
                /\ wire' = Drop(wire, k)
                /\ remaining' = remaining - k
          /\ UNCHANGED dpc
       \/ /\ ~closed /\ pending = <<>> /\ remaining > 0 /\ wire = <<>> /\ ~wireOpen
          /\ dpc' = "returned"
          /\ UNCHANGED <<wire, remaining, pending>>
       \/ /\ closed
          /\ dpc' = "returned"
          /\ wire' = <<>>
          /\ UNCHANGED <<remaining, pending>>
    /\ UNCHANGED <<frames, wireOpen, out, sink, closed, sawEOF>>
    /\ UNCHANGED <<lifeVars, execVars, auxVars>>

\* io.CopyN(os.Stderr, ...): its error is dropped and the loop goes on.
CopyStderr ==
    /\ dpc = "stderr"
    /\ (Len(wire) >= remaining) \/ ~wireOpen \/ closed
    /\ LET k == Min(remaining, Len(wire)) IN
          /\ sink' = sink \o SubSeq(wire, 1, k)
          /\ wire' = Drop(wire, k)
    /\ remaining' = 0
    /\ dpc' = "header"
    /\ UNCHANGED <<frames, wireOpen, pending, out, closed, sawEOF>>
    /\ UNCHANGED <<lifeVars, execVars, auxVars>>

\* io.CopyN(io.Discard, ...)
CopyDiscard ==
    /\ dpc = "discard"
    /\ (Len(wire) >= remaining) \/ ~wireOpen \/ closed
    /\ wire' = Drop(wire, Min(remaining, Len(wire)))
    /\ remaining' = 0
    /\ dpc' = "header"
    /\ UNCHANGED <<frames, wireOpen, pending, out, sink, closed, sawEOF>>
    /\ UNCHANGED <<lifeVars, execVars, auxVars>>

\* DockerStream.Read with a buffer of n bytes: bytes of the Write in
\* progress, or io.EOF once the writer is closed.
Read(n) ==
    /\ ~sawEOF
    /\ IF WriterClosed
       THEN /\ sawEOF' = TRUE
            /\ UNCHANGED <<out, pending>>
       ELSE /\ pending # <<>>
            /\ out' = out \o SubSeq(pending, 1, Min(n, Len(pending)))
            /\ pending' = Drop(pending, Min(n, Len(pending)))
            /\ UNCHANGED sawEOF
    /\ UNCHANGED <<frames, wire, wireOpen, dpc, remaining, sink, closed>>
    /\ UNCHANGED <<lifeVars, execVars, auxVars>>

\* DockerStream.Close: closes the connection and the pipe's writer; the
\* bytes of a Write in progress that were not read are lost.
Close ==
    /\ ~closed
    /\ closed' = TRUE
    /\ pending' = <<>>
    /\ UNCHANGED <<frames, wire, wireOpen, dpc, remaining, out, sink, sawEOF>>
    /\ UNCHANGED <<lifeVars, execVars, auxVars>>

DemuxNext ==
    \/ ReadHeader
    \/ CopyStdout
    \/ CopyStderr
    \/ CopyDiscard
    \/ \E n \in {1, 2} : Read(n)
    \/ Close

\* After NewDockerStream: the goroutine is about to read its first header.
\* Only the last frame can be cut short by the end of the connection.
DemuxInit ==
    /\ LifeIdle /\ ExecIdle /\ AuxIdle
    /\ \E fs \in SeqsUpTo(Frames, MaxFrames), open \in BOOLEAN :
          /\ \A i \in 1..(Len(fs) - 1) : fs[i].size = Len(fs[i].payload)
          /\ (open => \A i \in 1..Len(fs) : fs[i].size = Len(fs[i].payload))
          /\ frames = fs
          /\ wire = Encode(fs)
          /\ wireOpen = open
    /\ dpc = "header" /\ remaining = 0
    /\ pending = <<>> /\ out = <<>> /\ sink = <<>>
    /\ closed = FALSE /\ sawEOF = FALSE

DemuxSpec == DemuxInit /\ [][DemuxNext]_vars

\* The Go runtime runs the demux goroutine whenever it can take a step.
DemuxLiveSpec ==
    /\ DemuxSpec
    /\ WF_vars(ReadHeader) /\ WF_vars(CopyStdout) /\ WF_vars(CopyStderr) /\ WF_vars(CopyDiscard)

(***************************************************************************)
(* Claims about the demultiplexer.                                         *)
(***************************************************************************)
\* C37: after Close the demux goroutine eventually returns, wherever it
\* stood; a Read made after Close does not block, hands out no byte and
\* returns io.EOF.
C37_CloseEndsDemux ==
    /\ closed ~> (dpc = "returned")
    /\ [](closed /\ ~sawEOF => ENABLED Read(1))
    /\ [][(closed /\ \E n \in {1, 2} : Read(n)) => (sawEOF' /\ out' = out)]_vars

\* C37 witness: the stream was closed while the goroutine stood in the Write
\* of a stdout payload of which the consumer never read a byte; the
\* goroutine has returned and a Read has seen io.EOF.
C37_Witness ==
    /\ closed /\ dpc = "returned" /\ sawEOF /\ out = <<>>
    /\ Len(frames) = 1 /\ frames[1].type = 1 /\ frames[1].size = 2 /\ remaining < 2
    /\ wireOpen

\* The payload bytes of the frames of the given stream type, in frame order.
RECURSIVE PayloadsOf(_, _)
PayloadsOf(fs, t) ==
    IF fs = <<>> THEN <<>>
    ELSE (IF Head(fs).type = t THEN Head(fs).payload ELSE <<>>) \o PayloadsOf(Tail(fs), t)

IsPrefix(a, b) == Len(a) <= Len(b) /\ a = SubSeq(b, 1, Len(a))

\* C5: what the consumer has read from the DockerStream, and what the pipe
\* holds for it, is always a prefix of the concatenation in frame order of
\* the payloads of the type-1 frames, and is all of it when the consumer
\* reads to end-of-file without closing: no byte of a header or of a frame
\* of another type reaches the reader.
C5_OnlyStdoutPayloads ==
    /\ IsPrefix(out \o pending, PayloadsOf(frames, 1))
    /\ (sawEOF /\ ~closed => out = PayloadsOf(frames, 1))

\* C5 witness: a stderr frame with a payload, then a stdout frame, and the
\* consumer has read the stdout payload to end-of-file.
C5_Witness ==
    /\ sawEOF /\ ~closed
    /\ Len(frames) = 2
    /\ frames[1].type = 2 /\ frames[1].payload = <<1>>
    /\ frames[2].type = 1 /\ frames[2].payload = <<2, 0>>
    /\ out = <<2, 0>> /\ sink = <<1>>

(***************************************************************************)
(* DockerDriver.Create from Validate to ContainerCreate, on one config.    *)
(* A label map is a set of <<key, value>> pairs with one value a key;      *)
(* LabelsNil tells a nil map from an empty one.                            *)

\* C13, as stated: when an injection fails (the content does not decode, or
\* the put fails, also for a cancelled request), Create fails and the
\* container it created no longer exists when it returns.
C13_InjectionFailureTearsDown ==
    [][(PostInject /\ InjectFile(Head(post.files), cstate[post.id], post.cancelled) # "ok")
          => (post'.pc = "done" /\ post'.status = 500 /\ ~Exists(cstate'[post.id]))]_vars

\* C36: when Create returns, with its id or with an error, the container it
\* created no longer exists or its TTL goroutine has been started.
C36_CreatedIsGoneOrTimed ==
    [][(post.pc \in {"create", "inject"} /\ post'.pc \in {"start", "done"} /\ post'.id \in Ids)
          => (~Exists(cstate'[post'.id]) \/ ttl'[post'.id] # "off")]_vars

\* The number of files of a request's context whose content decodes.
Decodable(fs) == Len(SelectSeq(fs, LAMBDA f : f = "good"))

\* C14: files are put into the container only inside Create, on a container
\* that is created, not started and never seen ready; when the sandbox can be
\* seen ready, and when the 201 answer is sent, no file is left to inject and
\* every decodable file of the request has been put.
C14_InjectBeforeReady ==
    /\ [][post'.puts > post.puts =>
            /\ post.pc = "inject" /\ post'.puts = post.puts + 1
            /\ cstate[post.id] = "created" /\ ~observedReady[post.id]]_vars
    /\ []((post.id \in Ids /\ (observedReady[post.id] \/ cstate[post.id] = "running"
                                \/ post.status = 201))
            => (post.files = <<>> /\ post.pc = "done" /\ post.puts = Decodable(post.context)))

\* C14 witness: the 201 answer of a request that carried a decodable file.
C14_Witness ==
    post.status = 201 /\ post.puts = MaxFiles /\ observedReady[post.id]

(***************************************************************************)
ManagedLabel == "xyz.boxed.managed"

\* Mutant: a key the caller already set is left alone.
SetLabel_keepExisting(m, k, v) ==
    IF \E q \in m : q[1] = k THEN m ELSE m \cup {<<k, v>>}

\* m[k] = v on a Go map.
SetLabel(m, k, v) == {q \in m : q[1] # k} \cup {<<k, v>>}

\* labels := cfg.Labels; if labels == nil { labels = make(...) }; labels[ManagedLabel] = "true"
ManagedLabels(c) == SetLabel(IF c.LabelsNil THEN {} ELSE c.Labels, ManagedLabel, "true")

\* Mutant: Create's validation without the memory limit.
CreateValidate_noMemoryLimit(c) ==
    IF c.Image = "" THEN [err |-> "ErrInvalidConfig", cfg |-> c]
    ELSE LET d == ApplyDefaults(c) IN
         IF d.CPUMilli > MaxCPUMilli \/ d.TimeoutSec > MaxTimeoutSec
         THEN [err |-> "ErrInvalidConfig", cfg |-> d]
         ELSE [err |-> "ok", cfg |-> d]

\* cfg.Validate() as Create calls it.
CreateValidate(c) == Validate(c)

\* Create with no context file: what it returns (err), the engine calls it
\* made in order, the labels of the container it created, and whether it
\* started the TTL goroutine.  imageLocal: the image inspect finds the
\* image; pullOk: the pull succeeds.
CreateContainer(c, ctxDead, imageLocal, pullOk) ==
    LET v == CreateValidate(c)
        none == [err |-> "ok", cfg |-> v.cfg, calls |-> <<>>, created |-> FALSE,
                 labels |-> {}, ttlArmed |-> FALSE]
    IN  IF v.err # "ok" THEN [none EXCEPT !.err = v.err]
        ELSE IF ctxDead
        THEN [none EXCEPT !.err = "err:failed to inspect image", !.calls = <<"ImageInspect">>]
        ELSE IF ~imageLocal /\ ~pullOk
        THEN [none EXCEPT !.err = "err:failed to pull image",
                          !.calls = <<"ImageInspect", "ImagePull">>]
        ELSE [none EXCEPT !.calls = (IF imageLocal THEN <<"ImageInspect">>
                                     ELSE <<"ImageInspect", "ImagePull">>)
                                    \o <<"ContainerCreate">>,
                          !.created = TRUE,
                          !.labels = ManagedLabels(v.cfg),
                          !.ttlArmed = TRUE]

CreateCall(ctxDead, imageLocal, pullOk) ==
    /\ made = <<>>
    /\ made' = <<CreateContainer(cfgIn, ctxDead, imageLocal, pullOk)>>
    /\ UNCHANGED <<cfgIn, again>>
    /\ UNCHANGED <<lifeVars, execVars, dmxVars, swpVars, authVars, extVars>>

\* Validate on the caller's config, and once more on the config it left.
ValidateTwice ==
    /\ again = <<>>
    /\ again' = <<[once |-> Validate(cfgIn), twice |-> Validate(Validate(cfgIn).cfg)]>>
    /\ UNCHANGED <<cfgIn, made>>
    /\ UNCHANGED <<lifeVars, execVars, dmxVars, swpVars, authVars, extVars>>

LabelChoices ==
    {[nil |-> TRUE, m |-> {}], [nil |-> FALSE, m |-> {}],
     [nil |-> FALSE, m |-> {<<ManagedLabel, "false">>, <<"owner", "a">>}],
     [nil |-> FALSE, m |-> {<<"owner", "a">>}]}

ConfigInputs ==
    {[Image |-> i, MemoryMB |-> mem, CPUMilli |-> cpu, TimeoutSec |-> t, WorkDir |-> w,
      LabelsNil |-> l.nil, Labels |-> l.m] :
        i \in {"", "python:3.10-slim"},
        mem \in {-1, 0, DefaultMemoryMB, MaxMemoryMB, MaxMemoryMB + 1},
        cpu \in {0, DefaultCPUMilli, MaxCPUMilli, MaxCPUMilli + 1},
        t \in {0, DefaultTimeoutSec, MaxTimeoutSec, MaxTimeoutSec + 1},
        w \in {"", "/workspace", "/app"},
        l \in LabelChoices}

CfgInit ==
    /\ LifeIdle /\ ExecIdle /\ DemuxIdle /\ SweepIdle /\ AuthIdle /\ ExtIdle
    /\ \E c \in ConfigInputs : CfgStart(c)

CfgNext ==
    \/ \E d \in BOOLEAN, il \in BOOLEAN, po \in BOOLEAN : CreateCall(d, il, po)
    \/ ValidateTwice

CfgSpec == CfgInit /\ [][CfgNext]_vars

(***************************************************************************)
(* Claims about Validate and Create's first half.                          *)
(***************************************************************************)
\* The config is out of range as the caller wrote it or after the defaults.
OutOfRange(c) ==
    \/ c.Image = ""
    \/ c.MemoryMB > MaxMemoryMB
    \/ c.CPUMilli > MaxCPUMilli
    \/ c.TimeoutSec > MaxTimeoutSec

\* C11: Create on a config with an empty image, memory above 8192 MiB, CPU
\* above 4.0 cores or a TTL above 30 minutes returns ErrInvalidConfig and has
\* made no engine call: no image inspect or pull, no container, no TTL timer.
C11_InvalidConfigNoBackendCall ==
    (made # <<>> /\ OutOfRange(cfgIn)) =>
        /\ made[1].err = "ErrInvalidConfig"
        /\ made[1].calls = <<>>
        /\ ~made[1].created
        /\ ~made[1].ttlArmed

\* C11 witness: Create has refused a config whose only fault is its memory,
\* with a live context and the image at hand.
C11_Witness ==
    /\ made # <<>> /\ made[1].err = "ErrInvalidConfig"
    /\ cfgIn.Image # "" /\ cfgIn.MemoryMB = MaxMemoryMB + 1
    /\ cfgIn.CPUMilli = MaxCPUMilli /\ cfgIn.TimeoutSec = MaxTimeoutSec

\* Every field holds a value Validate neither fills nor refuses.
InRange(c) ==
    /\ c.Image # ""
    /\ c.MemoryMB > 0 /\ c.MemoryMB <= MaxMemoryMB
    /\ c.CPUMilli > 0 /\ c.CPUMilli <= MaxCPUMilli
    /\ c.TimeoutSec > 0 /\ c.TimeoutSec <= MaxTimeoutSec
    /\ c.WorkDir # ""

\* C12: Validate succeeds on a config whose fields are all set and in range
\* and changes none of them; and on any config on which Validate succeeded,
\* a second Validate succeeds and leaves the config as the first left it.
C12_ValidateIdentity ==
    again # <<>> =>
        /\ (InRange(cfgIn) => again[1].once = [err |-> "ok", cfg |-> cfgIn])
        /\ (again[1].once.err = "ok" =>
                again[1].twice = [err |-> "ok", cfg |-> again[1].once.cfg])

\* C12 witness: Validate twice on a config in range, with a working
\* directory of the caller's and the largest memory, has left it as it was.
C12_Witness ==
    /\ again # <<>> /\ again[1].once.err = "ok" /\ again[1].twice.err = "ok"
    /\ InRange(cfgIn) /\ cfgIn.WorkDir = "/app" /\ cfgIn.MemoryMB = MaxMemoryMB
    /\ again[1].twice.cfg = cfgIn

\* C15: the container Create made carries xyz.boxed.managed = "true", and
\* no other value for that key, whatever the caller's labels; the caller's
\* other labels are kept.
C15_ManagedLabel ==
    (made # <<>> /\ made[1].created) =>
        /\ <<ManagedLabel, "true">> \in made[1].labels
        /\ \A q \in made[1].labels : q[1] = ManagedLabel => q[2] = "true"
        /\ \A q \in cfgIn.Labels : q[1] # ManagedLabel => q \in made[1].labels

\* C15 witness: the caller's labels held the managed key with another value.
C15_Witness ==
    /\ made # <<>> /\ made[1].created
    /\ <<ManagedLabel, "false">> \in cfgIn.Labels
    /\ made[1].labels = {<<ManagedLabel, "true">>, <<"owner", "a">>}

(***************************************************************************)
(* The startup sweep.  New starts cleanupOrphans in a goroutine of its own *)
(* and returns; the goroutine lists the containers whose managed label is  *)
(* "true" and force-removes them one by one, all under one context with a  *)
(* ten-second deadline.  A failed listing ends the sweep; a failed removal *)
(* is logged and the loop goes on.  Meanwhile the new driver serves its    *)
(* callers.  Containers 1..MaxOrphans are on the engine when the driver is *)
(* constructed; container NewId is one the new driver creates.             *)
(***************************************************************************)
Orphans == 1..MaxOrphans

NewId == MaxOrphans + 1

\* The managed label of a container: the value "true", another value, or no
\* such key.
LabelKinds == {"true", "other", "none"}

\* Mutant: the listing is not filtered.
SweepFilter_everyContainer(c) == c.st = "present"

\* ContainerList with All and the filter label=xyz.boxed.managed=true.
SweepFilter(c) == c.st = "present" /\ c.label = "true"

RECURSIVE InIdOrder(_)
InIdOrder(S) ==
    IF S = {} THEN <<>>
    ELSE LET m == CHOOSE x \in S : \A y \in S : x <= y
         IN <<m>> \o InIdOrder(S \ {m})

otherThanSweep == <<lifeVars, execVars, dmxVars, cfgVars, authVars, extVars>>

\* cleanupOrphans, the listing: refused when the deadline has passed, and the
\* sweep returns; with nothing listed the loop has nothing to do.
SweepList ==
    /\ sweep.pc = "list"
    /\ LET found == IF sweep.expired THEN <<>>
                    ELSE InIdOrder({c \in DOMAIN engine : SweepFilter(engine[c])})
       IN sweep' = [sweep EXCEPT !.pc = IF found = <<>> THEN "done" ELSE "remove",
                                 !.todo = found]
    /\ UNCHANGED <<engine, listed>>
    /\ UNCHANGED otherThanSweep

\* cleanupOrphans, one pass of the loop: ContainerRemove with Force; when it
\* fails (the deadline has passed, or the container is gone) the error is
\* logged and the loop goes on.
SweepRemove ==
    /\ sweep.pc = "remove"
    /\ LET c == Head(sweep.todo)
           rest == Tail(sweep.todo)
       IN /\ engine' = IF ~sweep.expired /\ engine[c].st = "present"
                       THEN [engine EXCEPT ![c].st = "removed", ![c].by = "sweep"]
                       ELSE engine
          /\ sweep' = [sweep EXCEPT !.pc = IF rest = <<>> THEN "done" ELSE "remove",
                                    !.todo = rest]
    /\ UNCHANGED listed
    /\ UNCHANGED otherThanSweep

\* The ten seconds of the sweep's context pass before the sweep has returned.
SweepDeadline ==
    /\ sweep.pc # "done" /\ ~sweep.expired
    /\ sweep' = [sweep EXCEPT !.expired = TRUE]
    /\ UNCHANGED <<engine, listed>>
    /\ UNCHANGED otherThanSweep

\* The new driver creates a container: Create labels it managed.
SweepNewCreate ==
    /\ engine[NewId].st = "absent"
    /\ engine' = [engine EXCEPT ![NewId] = [label |-> "true", st |-> "present", by |-> "none"]]
    /\ UNCHANGED <<sweep, listed>>
    /\ UNCHANGED otherThanSweep

\* DELETE /sandbox/{id} on a container the engine holds: Stop force-removes
\* it, whatever its labels.
SweepClientStop(c) ==
    /\ engine[c].st = "present"
    /\ engine' = [engine EXCEPT ![c].st = "removed", ![c].by = "client"]
    /\ UNCHANGED <<sweep, listed>>
    /\ UNCHANGED otherThanSweep

\* GET /sandbox: List returns every container of the engine.
SweepListSandboxes ==
    /\ listed' = <<{c \in DOMAIN engine : engine[c].st = "present"}>>
    /\ listed' # listed
    /\ UNCHANGED <<engine, sweep>>
    /\ UNCHANGED otherThanSweep

\* New has returned: the sweep is about to list, the engine holds the
\* containers an earlier driver (or anyone else) left.
SweepInit ==
    /\ LifeIdle /\ ExecIdle /\ DemuxIdle /\ CfgIdle /\ AuthIdle /\ ExtIdle
    /\ \E l \in [Orphans -> LabelKinds] :
          engine = [c \in 1..NewId |->
                      IF c \in Orphans THEN [label |-> l[c], st |-> "present", by |-> "none"]
                      ELSE [label |-> "none", st |-> "absent", by |-> "none"]]
    /\ sweep = [pc |-> "list", todo |-> <<>>, expired |-> FALSE]
    /\ listed = <<>>

SweepNext ==
    \/ SweepList
    \/ SweepRemove
    \/ SweepDeadline
    \/ SweepNewCreate
    \/ \E c \in DOMAIN engine : SweepClientStop(c)
    \/ SweepListSandboxes

\* The Go runtime schedules the goroutine New started: a step of the sweep
\* that stays possible is taken.
SweepSpec ==
    /\ SweepInit /\ [][SweepNext]_vars
    /\ WF_vars(SweepList) /\ WF_vars(SweepRemove)

(***************************************************************************)
(* Claims about the startup sweep.                                         *)
(***************************************************************************)
\* C33: what List returns is exactly the set of containers the engine holds
\* that bear the managed label: no container without it, every one with it.
C33_ListIsManagedOnly ==
    [][listed' # listed =>
          listed'[1] = {c \in DOMAIN engine : engine[c].st = "present" /\ engine[c].label = "true"}]_vars

\* C34: the sweep never removes the container the new driver created,
\* however its listing and removals interleave with the Create.
C34_SweepSparesOwnSandbox == engine[NewId].by # "sweep"

\* The containers that bore the managed label when the driver was constructed.
ManagedAtNew == {c \in Orphans : engine[c].label = "true"}

\* The sweep never removes a container without the managed label, and a
\* listing taken after a sweep that kept its deadline shows no container
\* that bore the label at construction.
SweepSafety ==
    /\ [](\A c \in DOMAIN engine : engine[c].by = "sweep" => engine[c].label = "true")
    /\ [][(SweepListSandboxes /\ sweep.pc = "done" /\ ~sweep.expired)
            => listed'[1] \cap ManagedAtNew = {}]_vars

Routes ==
    {"POST /sandbox", "POST /sandbox/:id/exec", "DELETE /sandbox/:id", "GET /sandbox",
     "GET /sandbox/:id/files", "POST /sandbox/:id/files", "GET /sandbox/:id/files/content",
     "GET /sandbox/:id/interact"}

DriverCallOf(route) ==
    CASE route = "POST /sandbox" -> "Create"
      [] route = "POST /sandbox/:id/exec" -> "Connect"
      [] route = "DELETE /sandbox/:id" -> "Stop"
      [] route = "GET /sandbox" -> "List"
      [] route = "GET /sandbox/:id/files" -> "ListFiles"
      [] route = "POST /sandbox/:id/files" -> "PutFile"
      [] route = "GET /sandbox/:id/files/content" -> "GetFile"
      [] OTHER -> "Connect"

\* RegisterRoutes: the middleware is used when a key is configured.
UsesAuth(key) == key # ""

\* The key authMiddleware looks at.
PresentedKey(header, query) == IF header = "" THEN query ELSE header

\* Mutant: any key that is not empty passes.
AuthAllows_anyKey(key, header, query) == PresentedKey(header, query) # ""

\* authMiddleware lets the request through to next.
AuthAllows(key, header, query) == ~(key # "" /\ PresentedKey(header, query) # key)

otherThanAuth == <<lifeVars, execVars, dmxVars, cfgVars, swpVars, extVars>>

\* The group dispatches the request: through the middleware when there is
\* one, to the 401 answer or on to the handler.
Dispatch ==
    /\ areq.pc = "arrived"
    /\ areq' = IF UsesAuth(apiKey) /\ ~AuthAllows(apiKey, areq.header, areq.query)
               THEN [areq EXCEPT !.pc = "done", !.status = 401]
               ELSE [areq EXCEPT !.pc = "handler"]
    /\ UNCHANGED apiKey
    /\ UNCHANGED otherThanAuth

\* The route's handler runs, calls the driver and answers (with a status
\* that is its own business, held as 200).
RouteHandler ==
    /\ areq.pc = "handler"
    /\ areq' = [areq EXCEPT !.pc = "done", !.handled = TRUE,
                            !.calls = <<DriverCallOf(areq.route)>>, !.status = 200]
    /\ UNCHANGED apiKey
    /\ UNCHANGED otherThanAuth

KeyChoices == {"", "k", "x"}

AuthInit ==
    /\ LifeIdle /\ ExecIdle /\ DemuxIdle /\ CfgIdle /\ SweepIdle /\ ExtIdle
    /\ apiKey \in {"", "k"}
    /\ \E r \in Routes, h \in KeyChoices, q \in KeyChoices : areq = Request(r, h, q)

AuthNext == Dispatch \/ RouteHandler

AuthSpec == AuthInit /\ [][AuthNext]_vars

(***************************************************************************)
(* Claims about the API key.                                               *)
(***************************************************************************)
\* The request carries the configured key in the header or in the query.
PresentsKey == areq.header = apiKey \/ areq.query = apiKey

\* C18: with a key configured, a request is at or past its handler only if
\* it carries the key in the X-Boxed-API-Key header or the api_key query
\* parameter; one that does not is answered 401 with no driver call; with no
\* key configured every request goes to its handler and is never answered 401.
C18_AuthGate ==
    /\ (apiKey # "" /\ (areq.pc = "handler" \/ areq.handled \/ areq.calls # <<>>))
          => PresentsKey
    /\ (apiKey # "" /\ ~PresentsKey /\ areq.pc = "done")
          => (areq.status = 401 /\ ~areq.handled /\ areq.calls = <<>>)
    /\ areq.status = 401 => (apiKey # "" /\ ~areq.handled /\ areq.calls = <<>>)
    /\ (apiKey = "" /\ areq.pc \notin {"idle", "arrived"})
          => (areq.status # 401 /\ (areq.pc = "done" => areq.handled))

\* C18 witness: a key is configured, the request carries it in the query
\* only, and its handler has called the driver.
C18_Witness ==
    /\ apiKey = "k" /\ areq.header = "" /\ areq.query = "k"
    /\ areq.pc = "done" /\ areq.handled /\ areq.calls = <<"Stop">>

(***************************************************************************)
(* The interactive bridge, interactSandbox: upgrade to a WebSocket,        *)
(* Connect, write repl.start, then one goroutine copying the Agent's lines *)
(* to the WebSocket and one forwarding the client's messages to the Agent; *)
(* each reports once on errChan (capacity 2), the handler returns on the   *)
(* first report and its deferred calls close the stream and the WebSocket. *)
(*                                                                         *)
(* A client message is held as what json.Unmarshal into a map makes of it  *)
(* (json: "object", "null", another JSON value "array", or "none"), the    *)
(* object's method field ("value", "null", "absent") and its bytes; the    *)
(* byte "xff" is not valid UTF-8.                                          *)
(***************************************************************************)
Message(json, method, bytes) == [json |-> json, method |-> method, bytes |-> bytes]

Messages ==
    {Message("none", "absent", <<"l", "s">>), Message("none", "absent", <<"l", "xff">>),
     Message("object", "value", <<"{m:v}">>), Message("object", "null", <<"{m:null}">>),
     Message("object", "absent", <<"{}">>), Message("array", "absent", <<"[]">>),
     Message("null", "absent", <<"null">>)}

\* json.Unmarshal(message, &generic) returns nil: a JSON object, or null
\* (which leaves the map nil).
UnmarshalOk(m) == m.json \in {"object", "null"}

\* Mutant: an object with a method key passes through, null or not.
IsStructured_anyMethodKey(m) == UnmarshalOk(m) /\ m.json = "object" /\ m.method # "absent"

\* err == nil && generic["method"] != nil
IsStructured(m) == UnmarshalOk(m) /\ m.json = "object" /\ m.method = "value"

\* string(message) as json.Marshal writes it and the Agent reads it back:
\* bytes that are not valid UTF-8 become U+FFFD.
JSONString(bytes) == [i \in 1..Len(bytes) |-> IF bytes[i] = "xff" THEN "ufffd" ELSE bytes[i]]

\* A line handed to conn.Write: the bytes passed through, or a marshalled
\* proto.Request (id <<>> when omitted), each followed by a newline.
Verbatim(bytes) ==
    [kind |-> "verbatim", method |-> "", data |-> <<>>, id |-> <<>>, bytes |-> bytes \o <<"\n">>]

NewRequest(method, data, id) ==
    [kind |-> "request", method |-> method, data |-> data, id |-> id, bytes |-> <<"\n">>]

\* What goroutine 2 writes for a message.
Forwarded(m) ==
    IF IsStructured(m) THEN Verbatim(m.bytes)
    ELSE NewRequest("repl.input", JSONString(m.bytes), <<>>)

\* The REPL's command for the lang query parameter.
ReplCmd(lang) == IF lang = "python" THEN "python3" ELSE "bash"

otherThanBridge == <<lifeVars, execVars, dmxVars, cfgVars, swpVars, authVars, fsVars, rdVars>>

\* Mutant: the error channel holds one value.
ErrChanFull_capOne(ch) == Len(ch) >= 1

\* make(chan error, 2): the channel takes no further value while it holds two.
ErrChanFull(ch) == Len(ch) >= 2

\* errChan <- v: the send goes through once the channel has room.
Send(v) ==
    /\ ~ErrChanFull(errChan)
    /\ errChan' = Append(errChan, v)

\* upgrader.Upgrade: on failure the handler returns, nothing was opened.
BridgeUpgrade(ok) ==
    /\ bridge.hpc = "upgrade"
    /\ bridge' = IF ok THEN [bridge EXCEPT !.hpc = "connect", !.wsOpened = TRUE]
                 ELSE [bridge EXCEPT !.hpc = "returned", !.ret = "upgradeErr"]
    /\ UNCHANGED <<peers, errChan, toAgent, toWs>>
    /\ UNCHANGED otherThanBridge

\* Connect, and on success the write of repl.start (its error is not looked
\* at) and the start of the two goroutines.  On failure the handler returns
\* and the deferred ws.Close() runs.
BridgeConnect(connRes, lang) ==
    /\ bridge.hpc = "connect"
    /\ IF connRes # "ok"
       THEN /\ bridge' = [bridge EXCEPT !.hpc = "returned", !.ret = connRes, !.wsClosed = TRUE]
            /\ UNCHANGED toAgent
       ELSE /\ bridge' = [bridge EXCEPT !.hpc = "wait", !.connOpened = TRUE,
                                        !.g1 = "scan", !.g2 = "read"]
            /\ toAgent' = Append(toAgent, [line |-> NewRequest("repl.start", <<ReplCmd(lang)>>, <<1>>),
                                           ok |-> TRUE])
    /\ UNCHANGED <<peers, errChan, toWs>>
    /\ UNCHANGED otherThanBridge

\* Goroutine 1, scanner.Scan(): the next line of the Agent; at the end of the
\* stream scanner.Err() is nil and nil is reported; a closed stream reads as
\* ended (Close closes the pipe's writer), so nil is reported as well.
AgentScan ==
    /\ bridge.g1 = "scan"
    /\ IF bridge.connClosed
       THEN /\ Send("nil")
            /\ bridge' = [bridge EXCEPT !.g1 = "done"]
       ELSE IF bridge.apos < Len(peers.agentOut)
       THEN /\ bridge' = [bridge EXCEPT !.g1 = "write", !.apos = @ + 1]
            /\ UNCHANGED errChan
       ELSE /\ peers.agentEnd = "eof"
            /\ Send("nil")
            /\ bridge' = [bridge EXCEPT !.g1 = "done"]
    /\ UNCHANGED <<peers, toAgent, toWs>>
    /\ UNCHANGED otherThanBridge

\* Goroutine 1, ws.WriteMessage: it fails on a closed WebSocket and may fail
\* once the client has gone; the failure is reported and ends the goroutine.
AgentToWs(ok) ==
    /\ bridge.g1 = "write"
    /\ ok => ~bridge.wsClosed
    /\ ~ok => (bridge.wsClosed \/ peers.wsEnd = "closed")
    /\ IF ok
       THEN /\ toWs' = Append(toWs, peers.agentOut[bridge.apos])
            /\ bridge' = [bridge EXCEPT !.g1 = "scan"]
            /\ UNCHANGED errChan
       ELSE /\ Send("wsWriteErr")
            /\ bridge' = [bridge EXCEPT !.g1 = "done"]
            /\ UNCHANGED toWs
    /\ UNCHANGED <<peers, toAgent>>
    /\ UNCHANGED otherThanBridge

\* Goroutine 2, ws.ReadMessage: the client's next message, or the error of a
\* closed WebSocket or a client that has gone, which is reported.
WsRead ==
    /\ bridge.g2 = "read"
    /\ IF bridge.wsClosed
       THEN /\ Send("wsReadErr")
            /\ bridge' = [bridge EXCEPT !.g2 = "done"]
       ELSE IF bridge.wpos < Len(peers.wsIn)
       THEN /\ bridge' = [bridge EXCEPT !.g2 = "forward", !.wpos = @ + 1]
            /\ UNCHANGED errChan
       ELSE /\ peers.wsEnd = "closed"
            /\ Send("wsReadErr")
            /\ bridge' = [bridge EXCEPT !.g2 = "done"]
    /\ UNCHANGED <<peers, toAgent, toWs>>
    /\ UNCHANGED otherThanBridge

\* Goroutine 2 after conn.Write: its result is not looked at, the loop reads
\* the next message.
AfterAgentWrite(ok) == "read"

\* Goroutine 2, conn.Write of the forwarded message: it fails on a closed or
\* broken stream.
WsToAgent ==
    /\ bridge.g2 = "forward"
    /\ LET ok == ~bridge.connClosed /\ ~bridge.agentBroken
           nxt == AfterAgentWrite(ok)
       IN /\ toAgent' = Append(toAgent, [line |-> Forwarded(peers.wsIn[bridge.wpos]), ok |-> ok])
          /\ IF nxt = "report"
             THEN /\ Send("agentWriteErr")
                  /\ bridge' = [bridge EXCEPT !.g2 = "done"]
             ELSE /\ bridge' = [bridge EXCEPT !.g2 = nxt]
                  /\ UNCHANGED errChan
    /\ UNCHANGED <<peers, toWs>>
    /\ UNCHANGED otherThanBridge

\* The Agent's end stops taking input (its process has closed stdin) while
\* its output stays open.
AgentBreaks ==
    /\ bridge.hpc = "wait" /\ ~bridge.agentBroken
    /\ bridge' = [bridge EXCEPT !.agentBroken = TRUE]
    /\ UNCHANGED <<peers, errChan, toAgent, toWs>>
    /\ UNCHANGED otherThanBridge

\* err = <-errChan; return err: the deferred conn.Close() and ws.Close() run.
BridgeReturn ==
    /\ bridge.hpc = "wait"
    /\ errChan # <<>>
    /\ bridge' = [bridge EXCEPT !.hpc = "returned", !.ret = Head(errChan),
                                !.connClosed = ClosedOnReturn(bridge.connOpened),
                                !.wsClosed = TRUE]
    /\ errChan' = Tail(errChan)
    /\ UNCHANGED <<peers, toAgent, toWs>>
    /\ UNCHANGED otherThanBridge

MaxAgentLines == 1  \* lines the Agent sends in one interactive session

BridgeInit ==
    /\ LifeIdle /\ ExecIdle /\ DemuxIdle /\ CfgIdle /\ SweepIdle /\ AuthIdle
    /\ \E w \in SeqsUpTo(Messages, MaxMessages), we \in {"closed", "open"},
          a \in SeqsUpTo({"r"}, MaxAgentLines), ae \in {"eof", "open"} :
            peers = [wsIn |-> w, wsEnd |-> we, agentOut |-> a, agentEnd |-> ae]
    /\ bridge = BridgeStart
    /\ errChan = <<>> /\ toAgent = <<>> /\ toWs = <<>>
    /\ FsIdle /\ ReaderIdle

BridgeNext ==
    \/ \E ok \in BOOLEAN : BridgeUpgrade(ok)
    \/ \E connRes \in ConnectResults, lang \in {"python", ""} : BridgeConnect(connRes, lang)
    \/ AgentScan
    \/ \E ok \in BOOLEAN : AgentToWs(ok)
    \/ WsRead
    \/ WsToAgent
    \/ AgentBreaks
    \/ BridgeReturn

BridgeSpec == BridgeInit /\ [][BridgeNext]_vars

(***************************************************************************)
(* Claims about the interactive bridge.                                    *)
(***************************************************************************)
\* The client's messages goroutine 2 has handed to conn.Write.
ForwardedCount == IF bridge.g2 = "forward" THEN bridge.wpos - 1 ELSE bridge.wpos

\* The message is a JSON object with a method field that is not null.
HasMethod(m) == m.json = "object" /\ m.method = "value"

\* The bytes as text: each byte that is not valid UTF-8 replaced by U+FFFD.
AsText(bytes) == [i \in 1..Len(bytes) |-> IF bytes[i] = "xff" THEN "ufffd" ELSE bytes[i]]

\* The lines written after repl.start are, in the order the client sent its
\* messages, what expected gives for each message.
WritesAre(expected(_)) ==
    bridge.connOpened =>
        /\ Len(toAgent) = ForwardedCount + 1
        /\ \A i \in 1..ForwardedCount : toAgent[i + 1].line = expected(peers.wsIn[i])

\* C22, as stated: a message that is a JSON object with a non-null method is
\* written verbatim with a newline, every other message as one repl.input
\* notification without id whose data is the raw message, in the client's order.
RawDataWrite(m) ==
    IF HasMethod(m) THEN Verbatim(m.bytes) ELSE NewRequest("repl.input", m.bytes, <<>>)

C22_ForwardVerbatimOrWrapRaw == WritesAre(RawDataWrite)

\* C22, amended: as stated, the data of the repl.input notification being
\* the message as text, with each byte that is not valid UTF-8 replaced.
TextDataWrite(m) ==
    IF HasMethod(m) THEN Verbatim(m.bytes) ELSE NewRequest("repl.input", AsText(m.bytes), <<>>)

C22_ForwardVerbatimOrWrapText == WritesAre(TextDataWrite)

\* C22 witness: an object with a method went through verbatim and then an
\* object whose method is null was wrapped, both writes served.
C22_Witness ==
    /\ Len(toAgent) = 3 /\ toAgent[2].ok /\ toAgent[3].ok
    /\ toAgent[2].line = Verbatim(<<"{m:v}">>)
    /\ toAgent[3].line = NewRequest("repl.input", <<"{m:null}">>, <<>>)

\* C23, as stated: every error of either direction (the Agent stream's read
\* failing or ending, a WebSocket read or write failing, a write towards the
\* Agent failing) is reported and ends its goroutine, so that the handler
\* returns on the first; when it has returned after a successful Connect,
\* the stream and the WebSocket are closed.
C23_EndsOnFirstError ==
    /\ [][(bridge.g2 = "forward" /\ Len(toAgent') > Len(toAgent)
              /\ ~toAgent'[Len(toAgent')].ok)
            => (Len(errChan') > Len(errChan) /\ bridge'.g2 = "done")]_vars
    /\ [][((bridge.g1 # "done" /\ bridge'.g1 = "done") \/ (bridge.g2 # "done" /\ bridge'.g2 = "done"))
            => Len(errChan') > Len(errChan)]_vars
    /\ []((bridge.hpc = "returned" /\ bridge.connOpened)
            => (bridge.connClosed /\ bridge.wsClosed))

\* The scheduling of one interactive session: a goroutine that can take its
\* next step takes it (a read or write on a closed stream or WebSocket
\* returns at once), and so does the handler's receive.
BridgeLiveSpec ==
    /\ BridgeSpec
    /\ WF_vars(AgentScan) /\ WF_vars(\E ok \in BOOLEAN : AgentToWs(ok))
    /\ WF_vars(WsRead) /\ WF_vars(WsToAgent)
    /\ WF_vars(BridgeReturn)

\* A pump goroutine that has been started and has not yet reported.
Pumping(g) == g \notin {"idle", "done"}

\* C38: each of the two pump goroutines sends at most one value on the error
\* channel and ends with it, the channel has room whenever a goroutine has
\* yet to send, so that no send blocks, and once the handler has returned
\* both goroutines eventually end, whichever direction failed first.
C38_PumpsReportOnceAndEnd ==
    /\ [][Len(errChan') > Len(errChan)
            => /\ Len(errChan') = Len(errChan) + 1
               /\ \/ Pumping(bridge.g1) /\ bridge'.g1 = "done" /\ bridge'.g2 = bridge.g2
                  \/ Pumping(bridge.g2) /\ bridge'.g2 = "done" /\ bridge'.g1 = bridge.g1]_vars
    /\ [][(bridge.g1 = "done" => bridge'.g1 = "done")
            /\ (bridge.g2 = "done" => bridge'.g2 = "done")]_vars
    /\ []((Pumping(bridge.g1) \/ Pumping(bridge.g2)) => ~ErrChanFull(errChan))
    /\ (bridge.hpc = "returned") ~> (~Pumping(bridge.g1) /\ ~Pumping(bridge.g2))

\* C38 witness: the client left first and the handler returned on it while
\* goroutine 1 was waiting for a line of an Agent that sends none; closing
\* the stream ended that read, and its report stays in the channel.
C38_Witness ==
    /\ bridge.hpc = "returned" /\ bridge.ret = "wsReadErr"
    /\ bridge.g1 = "done" /\ bridge.g2 = "done"
    /\ peers.agentEnd = "open" /\ bridge.apos = Len(peers.agentOut)
    /\ errChan = <<"nil">>

(***************************************************************************)
(* The two handlers that own a stream obtained from Connect: one exec      *)
(* call, or one interactive session.                                       *)
(***************************************************************************)
\* No exec call is made.
ExecOff ==
    /\ build = "amd64"
    /\ stream = <<>> /\ streamEnd = "eof" /\ pos = 0
    /\ stdout = <<>> /\ stderr = <<>> /\ artifacts = <<>> /\ exitCode = <<>>
    /\ gpc = "idle" /\ hpc = "off"
    /\ ctxDone = FALSE /\ connClosed = FALSE
    /\ resp = NoResp
    /\ calls = <<>>

StreamInit ==
    \/ ExecInit
    \/ /\ LifeIdle /\ ExecOff /\ DemuxIdle /\ CfgIdle /\ SweepIdle /\ AuthIdle
       /\ \E w \in SeqsUpTo(Messages, MaxMessages), we \in {"closed", "open"},
             a \in SeqsUpTo({"r"}, MaxAgentLines), ae \in {"eof", "open"} :
               peers = [wsIn |-> w, wsEnd |-> we, agentOut |-> a, agentEnd |-> ae]
       /\ bridge = BridgeStart
       /\ errChan = <<>> /\ toAgent = <<>> /\ toWs = <<>>
       /\ FsIdle /\ ReaderIdle

StreamNext == ExecNext \/ BridgeNext

StreamSpec == StreamInit /\ [][StreamNext]_vars

\* C28: when execSandbox or interactSandbox has returned after a successful
\* Connect, the stream is closed, whatever made it return; the exec handler's
\* last call is the Close.
C28_StreamClosedOnReturn ==
    /\ (hpc = "returned" /\ Len(calls) >= 2) =>
          (connClosed /\ calls[Len(calls)] = "Close")
    /\ (bridge.hpc = "returned" /\ bridge.connOpened) => bridge.connClosed

\* C28 witness: the interactive session ended on a WebSocket read failure
\* after a message was forwarded, and its stream is closed.
C28_Witness ==
    /\ bridge.hpc = "returned" /\ bridge.ret = "wsReadErr"
    /\ Len(toAgent) = 2 /\ bridge.connClosed

(***************************************************************************)
(* The files of one sandbox.  A path is held as the string it is written   *)
(* as, a sequence of names and "/" separators; the engine and              *)
(* path/filepath see its components.  File contents are sequences of bytes *)
(* (0..255); base64 text is a sequence of 6-bit values with 64 for "=".    *)
(* PutFile wraps the bytes in a tar archive of one entry named after the   *)
(* path's last component and copies it into the path's directory; GetFile  *)
(* and ListFiles read the tar archive the engine makes of a path.          *)
(***************************************************************************)
IsAbs(path) == path # <<>> /\ path[1] = "/"

\* The components of a path, as filepath.Clean and the engine see them.
Parts(path) == SelectSeq(path, LAMBDA t : t # "/")

\* filepath.Dir and filepath.Base of an absolute path held as components.
DirOf(abs) == SubSeq(abs, 1, Len(abs) - 1)

BaseOf(abs) == IF abs = <<>> THEN "." ELSE abs[Len(abs)]

\* strings.TrimSuffix(path, "/")
TrimSlash(path) ==
    IF path # <<>> /\ path[Len(path)] = "/" THEN SubSeq(path, 1, Len(path) - 1) ELSE path

\* base64.StdEncoding.EncodeToString
RECURSIVE EncodeToString(_)
EncodeToString(b) ==
    IF b = <<>> THEN <<>>
    ELSE IF Len(b) = 1 THEN <<b[1] \div 4, (b[1] % 4) * 16, 64, 64>>
    ELSE IF Len(b) = 2
         THEN <<b[1] \div 4, (b[1] % 4) * 16 + (b[2] \div 16), (b[2] % 16) * 4, 64>>
    ELSE <<b[1] \div 4, (b[1] % 4) * 16 + (b[2] \div 16), (b[2] % 16) * 4 + (b[3] \div 64),
           b[3] % 64>> \o EncodeToString(SubSeq(b, 4, Len(b)))

\* base64.StdEncoding.DecodeString: the bytes, or an error for text that is
\* not whole quadruples or has padding out of place.
RECURSIVE DecodeString(_)
DecodeString(t) ==
    IF t = <<>> THEN [ok |-> TRUE, data |-> <<>>]
    ELSE IF Len(t) < 4 \/ t[1] = 64 \/ t[2] = 64 THEN [ok |-> FALSE, data |-> <<>>]
    ELSE IF t[3] = 64
         THEN IF Len(t) = 4 /\ t[4] = 64
              THEN [ok |-> TRUE, data |-> <<t[1] * 4 + (t[2] \div 16)>>]
              ELSE [ok |-> FALSE, data |-> <<>>]
    ELSE IF t[4] = 64
         THEN IF Len(t) = 4
              THEN [ok |-> TRUE, data |-> <<t[1] * 4 + (t[2] \div 16),
                                           (t[2] % 16) * 16 + (t[3] \div 4)>>]
              ELSE [ok |-> FALSE, data |-> <<>>]
    ELSE LET rest == DecodeString(SubSeq(t, 5, Len(t)))
         IN [ok |-> rest.ok,
             data |-> <<t[1] * 4 + (t[2] \div 16), (t[2] % 16) * 16 + (t[3] \div 4),
                        (t[3] % 4) * 64 + t[4]>> \o rest.data]

\* The engine serves a container that exists.
BoxExists(st) == st \in {"created", "running"}

IsDirIn(t, abs) == abs = <<>> \/ \E e \in t : e.path = abs /\ e.dir

ExistsIn(t, abs) == abs = <<>> \/ \E e \in t : e.path = abs

\* Mutant: a relative path is resolved against the root.
resolvePath_againstRoot(st, workDir, path) ==
    IF IsAbs(path) THEN [err |-> "ok", abs |-> Parts(path)]
    ELSE IF ~BoxExists(st) THEN [err |-> "err:inspect", abs |-> <<>>]
    ELSE [err |-> "ok", abs |-> Parts(path)]

\* resolvePath: an absolute path as it is; a relative one joined to the
\* container's working directory ("/" when it has none), which it inspects.
resolvePath(st, workDir, path) ==
    IF IsAbs(path) THEN [err |-> "ok", abs |-> Parts(path)]
    ELSE IF ~BoxExists(st) THEN [err |-> "err:inspect", abs |-> <<>>]
    ELSE [err |-> "ok", abs |-> Parts(IF workDir = <<>> THEN <<"/">> ELSE workDir) \o Parts(path)]

\* The tar header and body PutFile writes.
TarOfFile(abs, data) ==
    [Name |-> <<BaseOf(abs)>>, Size |-> Len(data), IsDir |-> FALSE, body |-> data]

\* The engine's CopyToContainer of a one-file archive into dir: dir has to
\* be a directory, and the file cannot replace a directory.
CopyToTree(st, t, dir, tar) ==
    LET target == dir \o tar.Name IN
    IF ~BoxExists(st) \/ ~IsDirIn(t, dir) \/ IsDirIn(t, target)
    THEN [err |-> "err:docker copy failed", tree |-> t]
    ELSE [err |-> "ok",
          tree |-> {e \in t : e.path # target}
                      \cup {[path |-> target, dir |-> FALSE, data |-> tar.body]}]

\* The archive the engine makes of a path: the entry of the path itself,
\* named by its last component, and under a directory the entries below it,
\* named from that component on.
TarEntry(abs, e) ==
    [Name |-> SubSeq(e.path, Len(abs), Len(e.path)), Size |-> Len(e.data), IsDir |-> e.dir,
     body |-> e.data]

CopyFromTree(st, t, abs) ==
    IF ~BoxExists(st) \/ ~ExistsIn(t, abs)
    THEN [err |-> "err", first |-> <<>>, rest |-> {}]
    ELSE IF abs = <<>>
    THEN [err |-> "ok",
          first |-> <<[Name |-> <<>>, Size |-> 0, IsDir |-> TRUE, body |-> <<>>]>>,
          rest |-> {[Name |-> e.path, Size |-> Len(e.data), IsDir |-> e.dir, body |-> e.data] :
                       e \in t}]
    ELSE [err |-> "ok",
          first |-> <<TarEntry(abs, CHOOSE e \in t : e.path = abs)>>,
          rest |-> {TarEntry(abs, e) : e \in {x \in t : Len(x.path) > Len(abs)
                                                    /\ SubSeq(x.path, 1, Len(abs)) = abs}}]

\* DockerDriver.PutFile
DriverPut(st, workDir, t, path, data) ==
    LET r == resolvePath(st, workDir, path) IN
    IF r.err # "ok" THEN [err |-> r.err, tree |-> t]
    ELSE IF r.abs = <<>> THEN [err |-> "err:docker copy failed", tree |-> t]
    ELSE CopyToTree(st, t, DirOf(r.abs), TarOfFile(r.abs, data))

\* GetFile advances to the archive's first entry and hands out its body.
FirstBody(tar) == tar.first[1].body

\* DockerDriver.GetFile
DriverGet(st, workDir, t, path) ==
    LET r == resolvePath(st, workDir, path) IN
    IF r.err # "ok" THEN [err |-> r.err, out |-> <<>>]
    ELSE LET tar == CopyFromTree(st, t, r.abs) IN
         IF tar.err # "ok" THEN [err |-> "err:docker copy failed", out |-> <<>>]
         ELSE [err |-> "ok", out |-> FirstBody(tar)]

\* Mutant: the entry's name is the header's whole name.
FileEntry_wholeName(h) ==
    [Name |-> h.Name, Path |-> h.Name, Size |-> h.Size, IsDir |-> h.IsDir]

\* The FileEntry ListFiles makes of a tar header: Name is the base of the
\* header's name.
FileEntry(h) ==
    [Name |-> <<BaseOf(h.Name)>>, Path |-> h.Name, Size |-> h.Size, IsDir |-> h.IsDir]

\* DockerDriver.ListFiles
DriverList(st, workDir, t, path) ==
    LET r == resolvePath(st, workDir, path) IN
    IF r.err # "ok" THEN [err |-> r.err, entries |-> {}]
    ELSE LET tar == CopyFromTree(st, t, r.abs) IN
         IF tar.err # "ok" THEN [err |-> "err:failed to read path", entries |-> {}]
         ELSE [err |-> "ok", entries |-> {FileEntry(h) : h \in {tar.first[1]} \cup tar.rest}]

\* Mutant: the container is created without a working directory.
ContainerWorkingDir_unset(workDir) == <<>>

\* container.Config.WorkingDir of the container Create makes.
ContainerWorkingDir(workDir) == workDir

\* The absolute path a path names in a sandbox whose working directory is
\* workDir, as components.
AbsParts(path, workDir) == IF IsAbs(path) THEN Parts(path) ELSE Parts(workDir) \o Parts(path)

\* The history after bytes were put at path.
Wrote(w, by, given, abs, data) ==
    {x \in w : x.abs # abs} \cup {[by |-> by, given |-> given, abs |-> abs, data |-> data]}

\* Create's injection loop over the context files, on the tree of the new
\* container: undecodable content is skipped, a failed PutFile ends the loop
\* and fails the Create.
RECURSIVE InjectAll(_, _, _, _)
InjectAll(workDir, t, w, context) ==
    IF context = <<>> THEN [err |-> "ok", tree |-> t, written |-> w]
    ELSE LET file == Head(context)
             dec == DecodeString(file.content_base64)
             target == IF IsAbs(file.path) THEN file.path
                       ELSE workDir \o <<"/">> \o file.path
             put == DriverPut("created", ContainerWorkingDir(workDir), t, target, dec.data)
         IN IF ~dec.ok THEN InjectAll(workDir, t, w, Tail(context))
            ELSE IF put.err # "ok" THEN [err |-> "err:failed to inject file", tree |-> t, written |-> w]
            ELSE InjectAll(workDir, put.tree,
                           Wrote(w, "inject", file.path, AbsParts(file.path, workDir), dec.data),
                           Tail(context))

\* The directories of the image, and the working directory the engine makes
\* when it creates the container.
ImageTree(workDir) ==
    {[path |-> <<"opt">>, dir |-> TRUE, data |-> <<>>],
     [path |-> Parts(workDir), dir |-> TRUE, data |-> <<>>]}

otherThanFs == <<lifeVars, execVars, dmxVars, cfgVars, swpVars, authVars, brVars, rdVars>>

Op(op, path, data, res, body, entries, status) ==
    [op |-> op, path |-> path, data |-> data, res |-> res, out |-> body, entries |-> entries,
     status |-> status]

\* POST /sandbox with a working directory and context files: Create with its
\* injection loop, then Start.  A failed injection removes the container.
FsCreate(workDir, context) ==
    /\ box.st = "none"
    /\ LET r == InjectAll(workDir, ImageTree(workDir), {}, context) IN
       IF r.err = "ok"
       THEN /\ box' = [st |-> "running", workDir |-> ContainerWorkingDir(workDir)]
            /\ tree' = r.tree
            /\ written' = r.written
            /\ fop' = Op("Create", <<>>, <<>>, "ok", <<>>, {}, 201)
       ELSE /\ box' = [st |-> "removed", workDir |-> <<>>]
            /\ tree' = {}
            /\ written' = {}
            /\ fop' = Op("Create", <<>>, <<>>, r.err, <<>>, {}, 500)
    /\ UNCHANGED fcount
    /\ UNCHANGED otherThanFs

\* Driver.PutFile
FsPut(path, data) ==
    /\ box.st # "none" /\ fcount < MaxFileOps
    /\ LET r == DriverPut(box.st, box.workDir, tree, path, data) IN
       /\ tree' = r.tree
       /\ written' = IF r.err = "ok"
                     THEN Wrote(written, "put", path, AbsParts(path, box.workDir), data)
                     ELSE written
       /\ fop' = Op("Put", path, data, r.err, <<>>, {}, 0)
    /\ fcount' = fcount + 1
    /\ UNCHANGED box
    /\ UNCHANGED otherThanFs

\* POST /sandbox/{id}/files: the form's path is the directory ("/uploads"
\* when empty), the file's name is appended.
FsUpload(dir, name, data) ==
    /\ box.st # "none" /\ fcount < MaxFileOps
    /\ LET fullPath == TrimSlash(IF dir = <<>> THEN <<"/", "uploads">> ELSE dir) \o <<"/", name>>
           r == DriverPut(box.st, box.workDir, tree, fullPath, data)
       IN /\ tree' = r.tree
          /\ written' = IF r.err = "ok"
                        THEN Wrote(written, "upload", fullPath, AbsParts(fullPath, box.workDir),
                                   data)
                        ELSE written
          /\ fop' = Op("Upload", fullPath, data, r.err, <<>>, {}, IF r.err = "ok" THEN 200 ELSE 500)
    /\ fcount' = fcount + 1
    /\ UNCHANGED box
    /\ UNCHANGED otherThanFs

\* Driver.GetFile
FsGet(path) ==
    /\ box.st # "none" /\ fcount < MaxFileOps
    /\ LET r == DriverGet(box.st, box.workDir, tree, path) IN
       fop' = Op("Get", path, <<>>, r.err, r.out, {}, 0)
    /\ fcount' = fcount + 1
    /\ UNCHANGED <<box, tree, written>>
    /\ UNCHANGED otherThanFs

\* GET /sandbox/{id}/files/content: 400 without a path.
FsDownload(path) ==
    /\ box.st # "none" /\ fcount < MaxFileOps
    /\ IF path = <<>>
       THEN fop' = Op("Download", path, <<>>, "err:path required", <<>>, {}, 400)
       ELSE LET r == DriverGet(box.st, box.workDir, tree, path) IN
            fop' = Op("Download", path, <<>>, r.err, r.out, {}, IF r.err = "ok" THEN 200 ELSE 500)
    /\ fcount' = fcount + 1
    /\ UNCHANGED <<box, tree, written>>
    /\ UNCHANGED otherThanFs

\* GET /sandbox/{id}/files, and Driver.ListFiles: "/" without a path.
FsList(path) ==
    /\ box.st # "none" /\ fcount < MaxFileOps
    /\ LET r == DriverList(box.st, box.workDir, tree, IF path = <<>> THEN <<"/">> ELSE path) IN
       fop' = Op("List", IF path = <<>> THEN <<"/">> ELSE path, <<>>, r.err, <<>>, r.entries,
                 IF r.err = "ok" THEN 200 ELSE 500)
    /\ fcount' = fcount + 1
    /\ UNCHANGED <<box, tree, written>>
    /\ UNCHANGED otherThanFs

\* DELETE /sandbox/{id}, or the TTL: the container and its files are gone.
FsStop ==
    /\ BoxExists(box.st)
    /\ box' = [box EXCEPT !.st = "removed"]
    /\ tree' = {}
    /\ written' = {}
    /\ fop' = Op("Stop", <<>>, <<>>, "ok", <<>>, {}, 204)
    /\ UNCHANGED fcount
    /\ UNCHANGED otherThanFs

DataChoices == {<<>>, <<255>>, <<104, 105>>}

WorkDirChoices == {<<"/", "workspace">>, <<"/", "opt">>}

PathChoices ==
    {<<"f">>, <<"/", "workspace", "/", "f">>, <<"/", "workspace", "/", "d", "/", "f">>,
     <<"/", "workspace">>, <<"/", "opt", "/", "f">>}

DirChoices == {<<>>, <<"/", "workspace">>, <<"/", "workspace", "/">>, <<"/">>}

\* Context files: decodable content at a relative and at an absolute path,
\* one whose directory is missing, and content that does not decode.
ContextChoices ==
    {<<>>}
    \cup {<<[path |-> p, content_base64 |-> EncodeToString(b)]>> :
            p \in {<<"f">>, <<"/", "opt", "/", "f">>, <<"d", "/", "f">>}, b \in DataChoices}
    \cup {<<[path |-> <<"f">>, content_base64 |-> <<26, 6, 36>>]>>}

FsInit ==
    /\ LifeIdle /\ ExecIdle /\ DemuxIdle /\ CfgIdle /\ SweepIdle /\ AuthIdle /\ BridgeIdle
    /\ FsIdle /\ ReaderIdle

FsNext ==
    \/ \E w \in WorkDirChoices, c \in ContextChoices : FsCreate(w, c)
    \/ \E p \in PathChoices, b \in DataChoices : FsPut(p, b)
    \/ \E d \in DirChoices, b \in DataChoices : FsUpload(d, "f", b)
    \/ \E p \in PathChoices : FsGet(p)
    \/ \E p \in PathChoices \cup {<<>>, <<"/", "workspace", "/", "/", "f">>, <<"/", "/", "f">>} :
          FsDownload(p)
    \/ \E p \in DirChoices \cup {<<"d">>} : FsList(p)
    \/ FsStop

FsSpec == FsInit /\ [][FsNext]_vars

(***************************************************************************)
(* Claims about the files of a sandbox.                                    *)
(***************************************************************************)
\* The last operation read the file at the path a history entry was written at.
ReadsBack(w) ==
    /\ fop.op \in {"Get", "Download"}
    /\ BoxExists(box.st)
    /\ AbsParts(fop.path, box.workDir) = w.abs

\* C24: in an existing sandbox, a GetFile of a path (or a download of d/f)
\* that follows a successful PutFile of bytes b at that path (or an upload of
\* a file named f with form path d), with no later write to the path,
\* succeeds and yields exactly b; the download is answered 200.
C24_PutThenGet ==
    \A w \in written :
        (w.by \in {"put", "upload"} /\ ReadsBack(w))
            => /\ fop.res = "ok"
               /\ fop.out = w.data
               /\ fop.op = "Download" => fop.status = 200

\* A file named f was uploaded with form path "/workspace/" and then
\* "/workspace//f" was downloaded, giving the two uploaded bytes.
C24_Witness ==
    /\ fop.op = "Download" /\ fop.status = 200
    /\ fop.path = <<"/", "workspace", "/", "/", "f">>
    /\ fop.out = <<104, 105>>
    /\ \E w \in written : w.by = "upload" /\ w.abs = <<"workspace", "f">> /\ w.data = fop.out

\* C25: a context file {p, base64(b)} of the create request whose content
\* decodes is read back by a GetFile at the same p as exactly b, for as long
\* as nothing else was written there: a relative p names the same file under
\* the working directory when it is injected and when it is read.
C25_ContextFileReadable ==
    \A w \in written :
        (w.by = "inject" /\ fop.op \in {"Get", "Download"} /\ BoxExists(box.st)
            /\ fop.path = w.given)
            => /\ fop.res = "ok"
               /\ fop.out = w.data

\* The context file "f" with two bytes was injected under the working
\* directory /opt and read back by GetFile("f").
C25_Witness ==
    /\ fop.op = "Get" /\ fop.path = <<"f">> /\ fop.res = "ok" /\ fop.out = <<104, 105>>
    /\ box.workDir = <<"/", "opt">>
    /\ \E w \in written : w.by = "inject" /\ w.given = <<"f">> /\ w.abs = <<"opt", "f">>

\* C26: while the sandbox exists, a ListFiles of directory d that follows a
\* successful Put of a file f into d succeeds and has an entry whose name is
\* f, that is not a directory and whose size is the length of the bytes last
\* put there.
C26_ListAfterPut ==
    \A w \in written :
        (fop.op = "List" /\ BoxExists(box.st) /\ AbsParts(fop.path, box.workDir) = DirOf(w.abs))
            => /\ fop.res = "ok"
               /\ \E e \in fop.entries :
                     /\ e.Name = <<BaseOf(w.abs)>>
                     /\ ~e.IsDir
                     /\ e.Size = Len(w.data)

\* A two-byte file was uploaded into /workspace and the listing of
\* /workspace shows it beside the directory itself.
C26_Witness ==
    /\ fop.op = "List" /\ fop.res = "ok" /\ fop.path = <<"/", "workspace">>
    /\ \E w \in written : w.by = "upload" /\ w.abs = <<"workspace", "f">> /\ Len(w.data) = 2
    /\ \E e \in fop.entries : e.Name = <<"f">> /\ e.Size = 2 /\ ~e.IsDir
    /\ \E e \in fop.entries : e.IsDir

(***************************************************************************)
(* Claims about the answer of POST /sandbox.                               *)
(***************************************************************************)
\* C27: a POST /sandbox whose configuration fails validation is answered
\* 400 and creates no container; a Create that fails for another reason is
\* answered 500.
C27_ValidationIs400 ==
    [][(post.pc = "create" /\ post'.pc = "done")
          => /\ cstate' = cstate
             /\ IF Validate(HandlerConfig(post.timeoutSec)).err # "ok"
                THEN post'.status = 400
                ELSE post'.status = 500]_vars

(***************************************************************************)
(* The line readers on the Agent stream.  execSandbox gives its            *)
(* bufio.Scanner a buffer of 64 KiB and a maximum of 1 MiB; interactSandbox *)
(* uses a new Scanner as it is, with bufio's maximum of 64 KiB.  Sizes are *)
(* in bytes.  The Agent sends one line of rd.line bytes, ended by a        *)
(* newline or by the end of the stream.  Scanner.Scan is a loop: hand out  *)
(* a token if the buffer holds one, else make room (the buffer doubles up  *)
(* to the maximum; a full buffer at the maximum is ErrTooLong) and read.   *)
(***************************************************************************)
KiB == 1024

MiB == 1024 * 1024

\* bufio.MaxScanTokenSize and bufio's startBufSize
MaxScanTokenSize == 64 * KiB

startBufSize == 4 * KiB

\* The scanner each handler makes: len(s.buf) and s.maxTokenSize.
NewScanner(who) ==
    IF who = "exec" THEN [buf |-> 64 * KiB, maxTokenSize |-> MiB]
    ELSE [buf |-> 0, maxTokenSize |-> MaxScanTokenSize]

MinOf(a, b) == IF a <= b THEN a ELSE b

\* The bytes the Agent sends: the line and its newline.
Sent == rd.line + (IF rd.nl THEN 1 ELSE 0)

\* bufio.ScanLines finds a token in the buffered bytes: the whole line with
\* its newline, or at the end of the stream what is left.
HasToken == (rd.nl /\ rd.fill = rd.line + 1) \/ (rd.eof /\ rd.fill > 0)

\* Scan hands out the line.
ReaderToken ==
    /\ rd.st = "scan" /\ HasToken
    /\ rd' = [rd EXCEPT !.st = "token"]
    /\ UNCHANGED <<lifeVars, execVars, dmxVars, cfgVars, swpVars, authVars, brVars, fsVars>>

\* Scan returns false at the end of the stream with nothing buffered.
ReaderEnd ==
    /\ rd.st = "scan" /\ ~HasToken /\ rd.eof
    /\ rd' = [rd EXCEPT !.st = "end"]
    /\ UNCHANGED <<lifeVars, execVars, dmxVars, cfgVars, swpVars, authVars, brVars, fsVars>>

\* The buffer is full and may not grow: ErrTooLong.
ReaderTooLong ==
    /\ rd.st = "scan" /\ ~HasToken /\ ~rd.eof
    /\ rd.fill = rd.buf /\ rd.buf >= rd.maxTokenSize
    /\ rd' = [rd EXCEPT !.st = "tooLong"]
    /\ UNCHANGED <<lifeVars, execVars, dmxVars, cfgVars, swpVars, authVars, brVars, fsVars>>

\* The buffer is full and doubles, up to the maximum.
ReaderGrow ==
    /\ rd.st = "scan" /\ ~HasToken /\ ~rd.eof
    /\ rd.fill = rd.buf /\ rd.buf < rd.maxTokenSize
    /\ rd' = [rd EXCEPT !.buf = MinOf(IF rd.buf = 0 THEN startBufSize ELSE 2 * rd.buf,
                                      rd.maxTokenSize)]
    /\ UNCHANGED <<lifeVars, execVars, dmxVars, cfgVars, swpVars, authVars, brVars, fsVars>>

\* conn.Read into the free part of the buffer; the stream ends after the line.
ReaderRead ==
    /\ rd.st = "scan" /\ ~HasToken /\ ~rd.eof
    /\ rd.fill < rd.buf
    /\ LET n == MinOf(rd.buf - rd.fill, Sent - rd.fed) IN
       rd' = [rd EXCEPT !.fill = @ + n, !.fed = @ + n, !.eof = (n = 0)]
    /\ UNCHANGED <<lifeVars, execVars, dmxVars, cfgVars, swpVars, authVars, brVars, fsVars>>

\* What each handler does with the outcome of Scan: the line goes through the
\* loop body (exec) or out as one WebSocket message (bridge); ErrTooLong is
\* sent on done and answered 500 (exec) or sent on errChan and returned
\* (bridge); the plain end of the stream ends the loop without an error.
ReaderOutcome ==
    /\ rd.st \in {"token", "tooLong", "end"}
    /\ rd' = [rd EXCEPT !.st = "done",
                        !.out = CASE rd.st = "token" -> "delivered"
                                  [] rd.st = "tooLong" -> "error"
                                  [] OTHER -> "eof"]
    /\ UNCHANGED <<lifeVars, execVars, dmxVars, cfgVars, swpVars, authVars, brVars, fsVars>>

LineLengths == {0, 1, 4 * KiB, 64 * KiB - 1, 64 * KiB, 64 * KiB + 1, MiB - 1, MiB, MiB + 1}

ReaderInit ==
    /\ LifeIdle /\ ExecIdle /\ DemuxIdle /\ CfgIdle /\ SweepIdle /\ AuthIdle /\ BridgeIdle
    /\ FsIdle
    /\ \E who \in {"exec", "bridge"}, len \in LineLengths, nl \in BOOLEAN :
          rd = [who |-> who, maxTokenSize |-> NewScanner(who).maxTokenSize,
                buf |-> NewScanner(who).buf, fill |-> 0, line |-> len, nl |-> nl,
                fed |-> 0, eof |-> FALSE, st |-> "scan", out |-> "none"]

ReaderNext ==
    \/ ReaderToken
    \/ ReaderEnd
    \/ ReaderTooLong
    \/ ReaderGrow
    \/ ReaderRead
    \/ ReaderOutcome

ReaderSpec == ReaderInit /\ [][ReaderNext]_vars

\* C31: in the exec coordinator and in the bridge alike, a line the Agent
\* sent of at most 1 MiB is delivered and is not answered with an error.
C31_LinesUpTo1MiB ==
    (rd.st = "done" /\ Sent > 0 /\ rd.line <= MiB) => rd.out = "delivered"

====
